---- MODULE Spec2Model ----
(***************************************************************************)
(* Model of analyze_ref_gc: the streaming FASTA reader (src/reader.rs),    *)
(* the sliding-window composition counter and aggregator, and the          *)
(* producer/consumer orchestration (src/process.rs).                       *)
(***************************************************************************)
EXTENDS Integers, Sequences, FiniteSets, Bags, TLC

(***************************************************************************)
(* Bounds of the model.                                                    *)
(***************************************************************************)
\* longest sequence body (the bytes after the first id line) of a stream
MaxBody == 5
\* largest BufRead buffer capacity tried below the "whole stream" capacity
MaxCap == 3
\* largest max_read_length the reader is run with
MaxRL == 3

(***************************************************************************)
(* Base alphabet: reader.rs, enum Base.                                    *)
(***************************************************************************)
BaseA == 0
BaseC == 1
BaseT == 2
BaseG == 3
BaseN == 4
BaseOther == 5

Base == {BaseA, BaseC, BaseT, BaseG, BaseN, BaseOther}

from_u8(c) ==
    CASE c \in {"A", "a"} -> BaseA
      [] c \in {"C", "c"} -> BaseC
      [] c \in {"G", "g"} -> BaseG
      [] c \in {"T", "t"} -> BaseT
      [] c \in {"N", "n"} -> BaseN
      [] OTHER -> BaseOther

\* ((*self as usize) & 4) == 4
is_gap(b) == (b \div 4) % 2 = 1

\* u8::is_ascii_graphic on the bytes of the model: '!'..'~'
GraphicBytes == {">", "A", "C", "G", "T", "N", "a", "c", "g", "t", "n", "X"}
is_ascii_graphic(c) == c \in GraphicBytes

\* ASCII control bytes of the model other than tab and newline
ControlBytes == {"\r"}
\* char::is_whitespace on the bytes a sequence id can hold
WhitespaceBytes == {" ", "\t"}

(***************************************************************************)
(* Region catalogue as the reader sees it (after normalize()).             *)
(* A catalogue is a function from contig names to lists of regions         *)
(* [start, size, idx]; NoCatalogue stands for target_regions() = None.     *)
(***************************************************************************)
NoCatalogue == [present |-> FALSE, hash |-> << >>]

Region(start, size, idx) == [start |-> start, size |-> size, idx |-> idx]

\* Region::end
RegionEnd(r) == r.start + r.size

\* Regions::get + ContigRegions::regions
RegionsGet(cat, ctg) ==
    IF \E i \in DOMAIN cat.hash : cat.hash[i].name = ctg
    THEN (CHOOSE e \in {cat.hash[i] : i \in DOMAIN cat.hash} : e.name = ctg).regions
    ELSE << >>

\* RegionState::new_contig: the slice of the contig, None (<< >>) when the
\* contig is unknown or has no region
new_contig(cat, ctg) == RegionsGet(cat, ctg)

\* RegionState::advance
advance(slice) == IF Len(slice) > 1 THEN Tail(slice) ELSE << >>

\* RegionState::check_pos: the tag (0 for None) and the slice left behind
RECURSIVE check_pos(_, _)
check_pos(slice, pos) ==
    IF slice = << >> THEN [idx |-> 0, slice |-> << >>]
    ELSE LET r == slice[1] IN
         IF pos > RegionEnd(r) THEN check_pos(advance(slice), pos)
         ELSE [idx |-> IF pos >= r.start THEN r.idx ELSE 0, slice |-> slice]

(***************************************************************************)
(* State.                                                                  *)
(***************************************************************************)
VARIABLES
    stream,           \* the bytes of the FASTA input
    cap,              \* capacity of the BufRead buffer in front of it
    max_read_length,  \* Rdr.max_read_length
    catalogue,        \* cfg.target_regions()
    rdr,              \* the Rdr, its BufRead cursor and the locals of get_seq
    out,              \* the Seqs the reader loop has obtained from get_seq
    cfg,              \* the Config: read_lengths, threshold, bisulfite, threads
    ps,               \* one process_seq call: its Seq, position, Work and GcRes
    chan,             \* the bounded channel of Seqs
    snd_alive,        \* the Sender seq_send has not been dropped
    workers,          \* the process threads
    main,             \* the thread that runs process()
    kmcv,             \* output_kmers(): its inputs, its position and the file
    kmers,            \* kmers.rs: a KmerWork or a KmerBuilder and its history
    betabin           \* write_hist(): its inputs, its position and the output

(***************************************************************************)
(* The per-byte handlers of the reader: reader.rs, proc_*.  Each returns   *)
(* ok (FALSE for Err), the next RdrState, inc_pos and the bases pushed on  *)
(* SeqWork.v.                                                              *)
(***************************************************************************)
ProcErr == [ok |-> FALSE, state |-> "Err", inc |-> FALSE, push |-> << >>]
ProcOk(s, inc, push) == [ok |-> TRUE, state |-> s, inc |-> inc, push |-> push]

\* the base stored for a byte: the actual base when the tag is Some
PushedBase(gc, target_idx) == IF target_idx # 0 THEN gc ELSE BaseN

proc_in_gen(c, sw, s1, s2, s3, target_idx) ==
    IF c = "\n" THEN ProcOk(s1, FALSE, << >>)
    ELSE IF is_ascii_graphic(c)
    THEN LET gc == from_u8(c) IN
         ProcOk(IF is_gap(gc) THEN s2 ELSE s3, TRUE,
                IF sw THEN << PushedBase(gc, target_idx) >> ELSE << >>)
    ELSE ProcErr

proc_in_gap(c, sw, target_idx) ==
    proc_in_gen(c, sw, "InGapAfterNewLine", "InGap", "InSeq", target_idx)

proc_in_long_gap(c, sw, target_idx) ==
    proc_in_gen(c, sw, "InLongGapAfterNewLine", "InLongGap",
                "EndSeqAfterLongGap", target_idx)

proc_in_seq(c, sw, target_idx) ==
    proc_in_gen(c, sw, "InSeqAfterNewLine", "StartGap", "InSeq", target_idx)

\* proc_after_new_line(c, sw, f, idx); fres is f(c, sw, idx)
proc_after_new_line(c, fres) ==
    IF c = ">" THEN ProcOk("EndSeq", FALSE, << >>) ELSE fres

proc_start_seq(c) ==
    IF c = "\n" THEN ProcOk("StartSeqAfterNewLine", FALSE, << >>)
    ELSE IF is_ascii_graphic(c)
    THEN ProcOk(IF is_gap(from_u8(c)) THEN "StartSeq"
                ELSE "StartSeqAfterInitialGap", TRUE, << >>)
    ELSE ProcErr

proc_start_seq_after_new_line(c) ==
    IF c = ">" THEN ProcOk("StartSeqId", FALSE, << >>) ELSE proc_start_seq(c)

\* s.find(char::is_whitespace) + truncate
TruncAtWhitespace(s) ==
    IF \E i \in 1..Len(s) : s[i] \in WhitespaceBytes
    THEN LET i == CHOOSE i \in 1..Len(s) :
                     /\ s[i] \in WhitespaceBytes
                     /\ \A j \in 1..(i - 1) : s[j] \notin WhitespaceBytes
         IN SubSeq(s, 1, i - 1)
    ELSE s

\* proc_in_seq_id: the result and the new seq_id
proc_in_seq_id(c, s) ==
    IF c = "\n" THEN [g |-> ProcOk("NewContig", FALSE, << >>), id |-> TruncAtWhitespace(s)]
    ELSE IF c \notin ControlBytes
    THEN [g |-> ProcOk("InSeqId", FALSE, << >>), id |-> Append(s, c)]
    ELSE [g |-> ProcErr, id |-> s]

proc_start_seq_id(c, s) == proc_in_seq_id(c, << >>)

proc_start(c) == IF c = ">" THEN ProcOk("StartSeqId", FALSE, << >>) ELSE ProcErr

(***************************************************************************)
(* Rdr and get_seq.  The BufRead in front of the input holds the stream    *)
(* bytes bpos+1..bfill; fill_buf refills it with up to cap bytes when it   *)
(* is empty, consume(n) moves bpos.  v is SeqWork.v; vsrc records, for     *)
(* each base of v, the index in the stream of the byte it was read from.   *)
(***************************************************************************)
NoRet == [some |-> FALSE, v |-> << >>, vsrc |-> << >>]

\* Rdr::new, followed by the entry of the first get_seq call
RdrNew ==
    [state |-> "Start", seq_id |-> << >>, pos |-> 0, ts |-> << >>,
     bpos |-> 0, bfill |-> 0,
     v |-> << >>, vsrc |-> << >>, gap |-> 0,
     ix |-> 0, used |-> 0, seq_ready |-> FALSE,
     pc |-> "fill", ret |-> NoRet]

Min(a, b) == IF a < b THEN a ELSE b

\* self.r.fill_buf() and the test for an empty buffer at the head of the loop
FillBufStep(r, cp) ==
    LET fill == IF r.bpos >= r.bfill THEN Min(r.bfill + cp, Len(stream)) ELSE r.bfill
    IN  IF fill = r.bpos
        THEN [r EXCEPT !.bfill = fill, !.pc = "ret"]
        ELSE [r EXCEPT !.bfill = fill, !.ix = 0, !.used = 0,
                       !.seq_ready = FALSE, !.pc = "scan"]

\* the effect of one handler result g on the loop state b
Apply(b, g, at) ==
    [b EXCEPT !.ok = g.ok,
              !.state = IF g.ok THEN g.state ELSE b.state,
              !.inc = g.inc,
              !.v = b.v \o g.push,
              !.vsrc = b.vsrc \o [i \in 1..Len(g.push) |-> at]]

\* the match on self.state in the body of the for loop, for byte c read
\* from stream index at with target tag idx
Transition(r, c, at, idx, slice) ==
    LET b == [ok |-> TRUE, panic |-> FALSE, state |-> r.state, inc |-> FALSE,
              v |-> r.v, vsrc |-> r.vsrc, gap |-> r.gap, used |-> r.used,
              seq_ready |-> FALSE, seq_id |-> r.seq_id, pos |-> r.pos,
              ts |-> slice]
    IN CASE r.state = "Start" -> Apply(b, proc_start(c), at)
         [] r.state = "StartSeqId" ->
              LET q == proc_start_seq_id(c, r.seq_id)
              IN  Apply([b EXCEPT !.seq_id = q.id], q.g, at)
         [] r.state = "StartSeqAfterNewLine" ->
              Apply(b, proc_start_seq_after_new_line(c), at)
         [] r.state = "InSeqId" ->
              LET q == proc_in_seq_id(c, r.seq_id)
              IN  Apply([b EXCEPT !.seq_id = q.id], q.g, at)
         [] r.state = "NewContig" ->
              Apply([b EXCEPT !.ts = IF catalogue.present
                                     THEN new_contig(catalogue, r.seq_id)
                                     ELSE slice,
                              !.pos = 0],
                    proc_start_seq(c), at)
         [] r.state = "StartSeq" -> Apply(b, proc_start_seq(c), at)
         [] r.state = "InSeq" ->
              Apply([b EXCEPT !.gap = 0], proc_in_seq(c, TRUE, idx), at)
         [] r.state = "InSeqAfterNewLine" ->
              Apply(b, proc_after_new_line(c, proc_in_seq(c, TRUE, idx)), at)
         [] r.state = "InGapAfterNewLine" ->
              Apply(b, proc_after_new_line(c, proc_in_gap(c, TRUE, idx)), at)
         [] r.state = "InLongGapAfterNewLine" ->
              Apply(b, proc_after_new_line(c, proc_in_long_gap(c, FALSE, idx)), at)
         [] r.state = "StartGap" ->
              Apply([b EXCEPT !.gap = 1], proc_in_gap(c, TRUE, idx), at)
         [] r.state = "InGap" ->
              LET gap == r.gap + 1 IN
              IF gap >= max_read_length
              THEN IF ~(Len(r.v) > gap)
                   THEN [b EXCEPT !.panic = TRUE]
                   ELSE Apply([b EXCEPT !.v = SubSeq(r.v, 1, Len(r.v) - gap),
                                        !.vsrc = SubSeq(r.vsrc, 1, Len(r.v) - gap),
                                        !.gap = 0],
                              proc_in_long_gap(c, FALSE, idx), at)
              ELSE Apply([b EXCEPT !.gap = gap], proc_in_gap(c, TRUE, idx), at)
         [] r.state = "InLongGap" -> Apply(b, proc_in_long_gap(c, FALSE, idx), at)
         [] r.state = "EndSeq" ->
              [b EXCEPT !.used = r.ix, !.seq_ready = TRUE, !.state = "StartSeqId"]
         [] r.state = "EndSeqAfterLongGap" ->
              [b EXCEPT !.used = IF r.ix > 0 THEN r.ix - 1 ELSE r.ix,
                        !.pos = IF r.pos > 0 THEN r.pos - 1 ELSE r.pos,
                        !.seq_ready = TRUE, !.state = "StartSeq"]
         [] r.state = "StartSeqAfterInitialGap" ->
              [b EXCEPT !.used = IF r.ix > 0 THEN r.ix - 1 ELSE r.ix,
                        !.pos = IF r.pos > 0 THEN r.pos - 1 ELSE r.pos,
                        !.seq_ready = TRUE, !.state = "InSeq"]

\* one iteration of `for (ix, c) in buf.iter().enumerate()`
ByteStep(r) ==
    LET at == r.bpos + r.ix + 1
        c == stream[at]
        cp == IF catalogue.present THEN check_pos(r.ts, r.pos)
              ELSE [idx |-> 0, slice |-> r.ts]
        t == Transition(r, c, at, cp.idx, cp.slice)
    IN  IF t.panic THEN [r EXCEPT !.pc = "panic"]
        ELSE IF ~t.ok THEN [r EXCEPT !.pc = "err"]
        ELSE [r EXCEPT !.state = t.state,
                       !.pos = IF t.inc THEN t.pos + 1 ELSE t.pos,
                       !.seq_id = t.seq_id, !.ts = t.ts,
                       !.v = t.v, !.vsrc = t.vsrc, !.gap = t.gap,
                       !.used = t.used, !.seq_ready = t.seq_ready,
                       !.ix = IF t.seq_ready THEN r.ix ELSE r.ix + 1,
                       !.pc = IF t.seq_ready \/ at = r.bfill
                              THEN "consume" ELSE "scan"]

\* the code after the for loop: self.r.consume(used) and the test to leave
ConsumeStep(r) ==
    LET len == r.bfill - r.bpos
        used == IF r.seq_ready THEN r.used
                ELSE IF r.state = "EndSeqAfterLongGap" THEN len - 1
                ELSE len
    IN  [r EXCEPT !.bpos = r.bpos + used,
                  !.pc = IF r.seq_ready /\ r.v # << >> THEN "ret" ELSE "fill"]

\* the code after the loop: the final truncation and the value returned
ReturnStep(r) ==
    IF r.gap > 0 /\ ~(Len(r.v) >= r.gap)
    THEN [r EXCEPT !.pc = "panic"]
    ELSE LET n == IF r.gap > 0 THEN Len(r.v) - r.gap ELSE Len(r.v)
             v == SubSeq(r.v, 1, n)
         IN  [r EXCEPT !.v = v, !.vsrc = SubSeq(r.vsrc, 1, n),
                       !.ret = [some |-> v # << >>, v |-> v,
                                vsrc |-> SubSeq(r.vsrc, 1, n)],
                       !.pc = "returned"]

\* the entry of the next get_seq call: fresh v and gap
GetSeqEnter(r) ==
    [r EXCEPT !.v = << >>, !.vsrc = << >>, !.gap = 0, !.ret = NoRet, !.pc = "fill"]

\* one step of get_seq, whatever the position
RdrStep(r, cp) ==
    CASE r.pc = "fill" -> FillBufStep(r, cp)
      [] r.pc = "scan" -> ByteStep(r)
      [] r.pc = "consume" -> ConsumeStep(r)
      [] r.pc = "ret" -> ReturnStep(r)
      [] OTHER -> r

\* a whole get_seq call: from its entry to Ok(Some), Ok(None), Err or panic
\* (the next state is bound by a set, so it is computed once per step)
RECURSIVE get_seq(_, _)
get_seq(r, cp) ==
    IF r.pc \in {"returned", "err", "panic"} THEN r
    ELSE CHOOSE q \in {get_seq(x, cp) : x \in {RdrStep(r, cp)}} : TRUE

(***************************************************************************)
(* The reader run on its own: every stream made of one id line and a body  *)
(* of at most MaxBody bytes, every capacity and max_read_length within the *)
(* bounds, with and without a region catalogue.                            *)
(***************************************************************************)
BodyBytes == {">", "\n", "A", "N", " "}

SeqsUpTo(S, n) == UNION {[1..k -> S] : k \in 0..n}

Header == << ">", "A", "\n" >>

Streams == {Header \o b : b \in SeqsUpTo(BodyBytes, MaxBody)}

\* a normalized catalogue with one region [1, 3) on contig A
CatalogueA ==
    [present |-> TRUE,
     hash |-> << [name |-> << "A" >>, regions |-> << Region(1, 2, 1) >>] >>]

Catalogues == {NoCatalogue, CatalogueA}

vars == << stream, cap, max_read_length, catalogue, rdr, out,
          cfg, ps, chan, snd_alive, workers, main, kmcv, kmers, betabin >>

\* what the reader and the process threads read and never write
rdrInputs == << stream, cap, max_read_length, catalogue, kmcv, kmers, betabin >>
procVars == << cfg, ps, chan, snd_alive, workers, main >>

\* the values of the variables a specification does not use
IdleCfg == [read_lengths |-> << 1 >>, tnum |-> 1, tden |-> 1,
            bisulfite |-> FALSE, threads |-> 1]
IdlePs == [s |-> << >>, i |-> 0, pc |-> "idle"]
IdleMain == [pc |-> "idle"]
IdleKmcv == [pc |-> "idle"]
IdleKmers == [pc |-> "idle"]
IdleBetabin == [pc |-> "idle"]

ProcIdle ==
    /\ kmcv = IdleKmcv
    /\ kmers = IdleKmers
    /\ betabin = IdleBetabin
    /\ cfg = IdleCfg
    /\ ps = IdlePs
    /\ chan = << >>
    /\ snd_alive = FALSE
    /\ workers = << >>
    /\ main = IdleMain

RdrIdle ==
    /\ stream = << >>
    /\ cap = 1
    /\ max_read_length = 1
    /\ catalogue = NoCatalogue
    /\ rdr = [pc |-> "idle"]
    /\ out = << >>

RdrInit ==
    /\ stream \in Streams
    /\ cap \in 1..MaxCap
    /\ max_read_length \in 1..MaxRL
    /\ catalogue \in Catalogues
    /\ rdr = RdrNew
    /\ out = << >>
    /\ ProcIdle

FillBuf ==
    /\ rdr.pc = "fill"
    /\ rdr' = FillBufStep(rdr, cap)
    /\ UNCHANGED << rdrInputs, out, procVars >>

ProcByte ==
    /\ rdr.pc = "scan"
    /\ rdr' = ByteStep(rdr)
    /\ UNCHANGED << rdrInputs, out, procVars >>

Consume ==
    /\ rdr.pc = "consume"
    /\ rdr' = ConsumeStep(rdr)
    /\ UNCHANGED << rdrInputs, out, procVars >>

Return ==
    /\ rdr.pc = "ret"
    /\ rdr' = ReturnStep(rdr)
    /\ UNCHANGED << rdrInputs, out, procVars >>

\* reader(): `while let Some(s) = rdr.get_seq()?`, the Seqs kept in out
ReaderLoop ==
    /\ rdr.pc = "returned"
    /\ IF rdr.ret.some
       THEN /\ out' = Append(out, [v |-> rdr.ret.v, vsrc |-> rdr.ret.vsrc])
            /\ rdr' = GetSeqEnter(rdr)
       ELSE /\ out' = out
            /\ rdr' = [rdr EXCEPT !.pc = "done"]
    /\ UNCHANGED << rdrInputs, procVars >>

RdrNext == FillBuf \/ ProcByte \/ Consume \/ Return \/ ReaderLoop

SpecRdr == RdrInit /\ [][RdrNext]_vars

(***************************************************************************)
(* Aggregator: process.rs, GcHistKey / GcHist / GcRes.  A HashMap is a     *)
(* function whose domain is the set of keys present; a GcHistKey is the    *)
(* pair << at, gc >>.                                                      *)
(***************************************************************************)
EmptyMap == << >>

\* *map.entry(k).or_insert(0) += n
MapInc(m, k, n) ==
    IF k \in DOMAIN m THEN [m EXCEPT ![k] = @ + n]
    ELSE [x \in DOMAIN m \cup {k} |-> IF x = k THEN n ELSE m[x]]

RECURSIVE MapAddKeys(_, _, _)
MapAddKeys(m, other, keys) ==
    IF keys = {} THEN m
    ELSE LET k == CHOOSE x \in keys : TRUE
         IN  MapAddKeys(MapInc(m, k, other[k]), other, keys \ {k})

\* a merge that only updates the keys self already holds
MapAdd_KnownKeys(m, other) == MapAddKeys(m, other, DOMAIN other \cap DOMAIN m)

\* the loop of GcHist::add over one map of other
MapAdd(m, other) == MapAddKeys(m, other, DOMAIN other)

\* GcHist::new
GcHistNew(bisulfite) ==
    [counts |-> EmptyMap, has_bs |-> bisulfite, bisulfite_counts |-> EmptyMap]

\* GcHist::add panics on other.bisulfite_counts.as_ref().unwrap()
GcHistAddOk(p, q) == p.has_bs => q.has_bs

\* GcHist::add
GcHistAdd(p, q) ==
    [p EXCEPT !.counts = MapAdd(p.counts, q.counts),
              !.bisulfite_counts =
                  IF p.has_bs THEN MapAdd(p.bisulfite_counts, q.bisulfite_counts)
                  ELSE p.bisulfite_counts]

SeqToSet(q) == {q[i] : i \in 1..Len(q)}

\* GcRes::new: one GcHist per distinct read length
GcResNew(rl, bisulfite) == [l \in SeqToSet(rl) |-> GcHistNew(bisulfite)]

\* GcRes::add_count
add_count(res, ix, cts) ==
    [res EXCEPT ![ix].counts = MapInc(@, cts, 1)]

\* GcRes::add_bs_count
add_bs_count(res, ix, cts) ==
    IF res[ix].has_bs
    THEN [res EXCEPT ![ix].bisulfite_counts = MapInc(@, cts, 1)]
    ELSE res

\* the assert_eq!s of add_assign and the unwrap of GcHist::add all pass
AddAssignOk(p, q) ==
    /\ DOMAIN p = DOMAIN q
    /\ \A l \in DOMAIN p : GcHistAddOk(p[l], q[l])

\* impl AddAssign for GcRes
add_assign(p, q) == [l \in DOMAIN p |-> GcHistAdd(p[l], q[l])]

(***************************************************************************)
(* Sliding composition counter: process.rs, Counts / Work / process_seq.   *)
(* The threshold T is the fraction tnum/tden.                              *)
(***************************************************************************)
CeilDiv(a, b) == (a + b - 1) \div b

\* ((*l as f64) * threshold).ceil() as u32
Threshold(l, c) == CeilDiv(l * c.tnum, c.tden)

\* Counts::new
CountsNew(threshold) == [counts |-> << 0, 0, 0, 0 >>, threshold |-> threshold]

\* the assert! of Counts::remove_base passes
RemoveBaseOk(c, base) == is_gap(base) \/ c.counts[base + 1] > 0

\* remove_base that forgets to decrement
remove_base_Skip(c, base) == c

\* Counts::remove_base
remove_base(c, base) ==
    IF is_gap(base) THEN c ELSE [c EXCEPT !.counts[base + 1] = @ - 1]

\* Counts::add_base
add_base(c, base) ==
    IF is_gap(base) THEN c ELSE [c EXCEPT !.counts[base + 1] = @ + 1]

CountsSum(c) == c.counts[1] + c.counts[2] + c.counts[3] + c.counts[4]

\* the threshold test taken one base too early
CountsReached_OffByOne(c) == CountsSum(c) + 1 >= c.threshold

\* Counts::get_counts: Some((A+T, C+G)) when the threshold is reached
CountsReached(c) == CountsSum(c) >= c.threshold

get_counts(c) ==
    << c.counts[BaseA + 1] + c.counts[BaseT + 1],
       c.counts[BaseC + 1] + c.counts[BaseG + 1] >>

\* the (T, C) point returned for both strands
get_bs_counts_OneStrand(c) ==
    << << c.counts[BaseT + 1], c.counts[BaseC + 1] >>,
       << c.counts[BaseT + 1], c.counts[BaseC + 1] >> >>

\* Counts::get_bs_counts: the points (T, C) and (A, G)
get_bs_counts(c) ==
    << << c.counts[BaseT + 1], c.counts[BaseC + 1] >>,
       << c.counts[BaseA + 1], c.counts[BaseG + 1] >> >>

RECURSIVE SeqMax(_)
SeqMax(q) ==
    IF Len(q) = 1 THEN q[1]
    ELSE LET m == SeqMax(Tail(q)) IN IF q[1] > m THEN q[1] ELSE m

\* Work::new
WorkNew(c) ==
    [buf |-> [i \in 1..SeqMax(c.read_lengths) |-> BaseOther],
     counts |-> [i \in 1..Len(c.read_lengths) |->
                    CountsNew(Threshold(c.read_lengths[i], c))]]

\* Work::clear
WorkClear(work) ==
    [buf |-> [i \in 1..Len(work.buf) |-> BaseOther],
     counts |-> [i \in 1..Len(work.counts) |->
                    [work.counts[i] EXCEPT !.counts = << 0, 0, 0, 0 >>]]]

\* the points added for read length index ix once base b is in its counts
Emit(c, res, ct, ix) ==
    LET l == c.read_lengths[ix] IN
    IF c.bisulfite
    THEN IF CountsReached(ct)
         THEN LET p == get_bs_counts(ct)
                  cts == << p[1][1] + p[2][1], p[1][2] + p[2][2] >>
              IN  add_bs_count(add_bs_count(add_count(res, l, cts), l, p[1]), l, p[2])
         ELSE res
    ELSE IF CountsReached(ct) THEN add_count(res, l, get_counts(ct)) ELSE res

\* the second inner loop of process_seq, from index ix on
RECURSIVE EmitAll(_, _, _, _)
EmitAll(c, res, counts, ix) ==
    IF ix > Len(counts) THEN res
    ELSE EmitAll(c, Emit(c, res, counts[ix], ix), counts, ix + 1)

\* one iteration of `for b in s.iter().chain(end)`: w is [work, res, panic]
BaseStep(c, w, b) ==
    LET rl == c.read_lengths
        max_len == Len(w.work.buf)
        n == Len(rl)
        leaving == [ix \in 1..n |-> w.work.buf[max_len - rl[ix] + 1]]
    IN  IF \E ix \in 1..n : ~RemoveBaseOk(w.work.counts[ix], leaving[ix])
        THEN [w EXCEPT !.panic = TRUE]
        ELSE LET buf == Append(Tail(w.work.buf), b)
                 counts == [ix \in 1..n |->
                              add_base(remove_base(w.work.counts[ix], leaving[ix]), b)]
             IN  [w EXCEPT !.work = [buf |-> buf, counts |-> counts],
                           !.res = EmitAll(c, w.res, counts, 1)]

\* the Seq alone, with no padding behind it
Padded_None(s, max_len) == s

\* the bases process_seq iterates over: s followed by max_len gap bases
Padded(s, max_len) == s \o [i \in 1..max_len |-> BaseOther]

\* the loop of process_seq from its i-th base on
\* (the next state is bound by a set, so it is computed once per step)
RECURSIVE BaseSteps(_, _, _, _)
BaseSteps(c, w, bases, i) ==
    IF i > Len(bases) \/ w.panic THEN w
    ELSE CHOOSE q \in {BaseSteps(c, x, bases, i + 1) :
                          x \in {BaseStep(c, w, bases[i])}} : TRUE

\* process_seq(cfg, s, res, work)
process_seq(c, s, w) ==
    BaseSteps(c, [w EXCEPT !.work = WorkClear(w.work)],
              Padded(s, Len(w.work.buf)), 1)

\* the locals a process thread starts with
WorkerNew(c) ==
    [work |-> WorkNew(c), res |-> GcResNew(c.read_lengths, c.bisulfite),
     panic |-> FALSE]

(***************************************************************************)
(* One process_seq call run on its own, base by base, from a fresh GcRes:  *)
(* every Seq of at most MaxSeqLen bases, read lengths up to MaxReadLen,    *)
(* thresholds 1/2, 3/4 and 1, bisulfite on and off.                        *)
(***************************************************************************)
MaxSeqLen == 3
MaxReadLen == 3

SeqBases == {BaseA, BaseC, BaseT, BaseG, BaseN}

\* one or two read lengths, possibly the same twice, in ascending order or not
ReadLengthVectors ==
    {<< a >> : a \in 1..MaxReadLen}
        \cup {p \in (1..MaxReadLen) \X (1..MaxReadLen) :
                p[1] <= p[2] \/ p = << 2, 1 >>}

Thresholds == {<< 1, 2 >>, << 3, 4 >>, << 1, 1 >>}

SeqConfigs ==
    {[read_lengths |-> rl, tnum |-> t[1], tden |-> t[2],
      bisulfite |-> bs, threads |-> 1] :
        rl \in ReadLengthVectors, t \in Thresholds, bs \in BOOLEAN}

SeqInit ==
    /\ RdrIdle
    /\ cfg \in SeqConfigs
    /\ \E s \in SeqsUpTo(SeqBases, MaxSeqLen) \ {<< >>} :
          ps = [s |-> s, i |-> 0, w |-> WorkerNew(cfg), pc |-> "clear"]
    /\ chan = << >>
    /\ snd_alive = FALSE
    /\ workers = << >>
    /\ main = IdleMain
    /\ kmcv = IdleKmcv
    /\ kmers = IdleKmers
    /\ betabin = IdleBetabin

\* process_seq: work.clear()
SeqClear ==
    /\ ps.pc = "clear"
    /\ ps' = [ps EXCEPT !.w.work = WorkClear(@), !.pc = "loop"]
    /\ UNCHANGED << rdrInputs, rdr, out, cfg, chan, snd_alive, workers, main >>

\* process_seq: one iteration of the loop over s.iter().chain(end)
SeqBase ==
    /\ ps.pc = "loop"
    /\ LET bases == Padded(ps.s, Len(ps.w.work.buf))
           w == BaseStep(cfg, ps.w, bases[ps.i + 1])
       IN  ps' = [ps EXCEPT !.w = w, !.i = @ + 1,
                            !.pc = IF w.panic THEN "panic"
                                   ELSE IF ps.i + 1 = Len(bases) THEN "done"
                                   ELSE "loop"]
    /\ UNCHANGED << rdrInputs, rdr, out, cfg, chan, snd_alive, workers, main >>

SeqNext == SeqClear \/ SeqBase

SpecSeq == SeqInit /\ [][SeqNext]_vars

(***************************************************************************)
(* process(): the reader on the main thread, cfg.threads process threads   *)
(* and the bounded channel between them.  Init is the state once the       *)
(* threads are spawned and seq_recv is dropped.  A get_seq call and a      *)
(* process_seq call are one step each.                                     *)
(***************************************************************************)
MaxThreads == 2

\* the first end-to-end scenario: one contig of eight gap-free bases
StreamWindows ==
    << ">", "c", "1", "\n", "A", "C", "G", "T", "A", "C", "G", "T", "\n" >>

\* the second end-to-end scenario: ACGT between two runs of N
StreamFlankedByN ==
    << ">", "c", "1", "\n", "N", "N", "N", "A", "C", "G", "T", "N", "N", "N", "\n" >>

\* two contigs A with a long gap, and a contig B without regions
StreamMixed ==
    << ">", "A", "\n", "A", "C", "G", "T", "\n", "N", "N", "N", "N", "\n", "G", "C", "\n", ">", "A", "\n", "T", "T", "A", "C", "\n", ">", "B", "\n", "A", "C", "\n" >>

\* six short contigs, more Seqs than a channel of four holds
StreamMany ==
    << ">", "A", "\n", "A", "C", "\n", ">", "A", "\n", "G", "T", "\n", ">", "A", "\n", "C", "A", "\n", ">", "A", "\n", "C", "G", "\n", ">", "A", "\n", "T", "A", "\n", ">", "A", "\n", "G", "A", "\n" >>

\* a space inside the second contig's sequence
StreamIllegal ==
    << ">", "A", "\n", "A", "C", "G", "T", "\n", ">", "A", "\n", "A", "C", " ", "G", "T", "\n" >>

\* a gap run right after the first base of a contig
StreamLostByte ==
    << ">", "A", "\n", "A", "N", "N", "N", "N", "\n" >>

\* a normalized catalogue with one region [0, 12) on contig A
CatalogueWide ==
    [present |-> TRUE,
     hash |-> << [name |-> << "A" >>, regions |-> << Region(0, 12, 1) >>] >>]

\* the runs of process(): a stream, the catalogue, the capacity of the
\* BufRead (0: the whole stream is one chunk), the read lengths, the
\* threshold and the bisulfite flag
ProcRuns ==
    {[stream |-> StreamWindows, catalogue |-> NoCatalogue, cap |-> 0,
      rl |-> << 4 >>, t |-> << 1, 1 >>, bs |-> FALSE],
     [stream |-> StreamFlankedByN, catalogue |-> NoCatalogue, cap |-> 0,
      rl |-> << 4 >>, t |-> << 1, 1 >>, bs |-> FALSE],
     [stream |-> StreamWindows, catalogue |-> CatalogueWide, cap |-> 0,
      rl |-> << 4 >>, t |-> << 1, 1 >>, bs |-> FALSE],
     [stream |-> StreamMixed, catalogue |-> CatalogueWide, cap |-> 0,
      rl |-> << 2, 3 >>, t |-> << 1, 2 >>, bs |-> TRUE],
     [stream |-> StreamMany, catalogue |-> CatalogueWide, cap |-> 0,
      rl |-> << 4 >>, t |-> << 1, 2 >>, bs |-> FALSE],
     [stream |-> StreamIllegal, catalogue |-> CatalogueWide, cap |-> 0,
      rl |-> << 2, 3 >>, t |-> << 1, 1 >>, bs |-> TRUE],
     [stream |-> StreamLostByte, catalogue |-> CatalogueWide, cap |-> 4,
      rl |-> << 4 >>, t |-> << 1, 1 >>, bs |-> FALSE]}

\* a channel with room for one more Seq per thread
ChanCapacity_Five == cfg.threads * 5

\* bounded(nt * 4)
ChanCapacity == cfg.threads * 4

\* a Sender that outlives reader()
SenderAliveAfterReader_Kept == TRUE

\* whether seq_send is still alive once reader() has returned: it was moved
\* into reader(), so it is dropped there
SenderAliveAfterReader == FALSE

\* a receive that leaves the Seq in the channel
ChanAfterRecv_Peek(ch) == ch

\* what rx.recv() leaves in the channel
ChanAfterRecv(ch) == Tail(ch)

\* rx.recv() returns Err: the channel is empty and has no Sender
RecvDisconnected == chan = << >> /\ ~snd_alive

WorkerDead(w) == workers[w].pc \in {"exited", "panicked"}

\* process() has not returned
NoResult == [returned |-> FALSE]

\* Err(anyhow!("Error occurred during processing"))
ProcessErr == [returned |-> TRUE, ok |-> FALSE]

\* Ok(res)
ProcessOk(res) == [returned |-> TRUE, ok |-> TRUE, res |-> res]

\* a process() that returns the partial result whatever the error flag
ProcessResult_Partial(error, res) == ProcessOk(res)

\* if error { Err(..) } else { Ok(res) }
ProcessResult(error, res) == IF error THEN ProcessErr ELSE ProcessOk(res)

ProcInit ==
    /\ \E run \in ProcRuns : \E nt \in 1..MaxThreads :
          /\ stream = run.stream
          /\ catalogue = run.catalogue
          /\ cap = IF run.cap = 0 THEN Len(run.stream) ELSE run.cap
          /\ cfg = [read_lengths |-> run.rl, tnum |-> run.t[1],
                    tden |-> run.t[2], bisulfite |-> run.bs, threads |-> nt]
    /\ max_read_length = SeqMax(cfg.read_lengths)
    /\ rdr = RdrNew
    /\ out = << >>
    /\ ps = IdlePs
    /\ kmcv = IdleKmcv
    /\ kmers = IdleKmers
    /\ betabin = IdleBetabin
    /\ chan = << >>
    /\ snd_alive = TRUE
    /\ workers = [w \in 1..cfg.threads |->
                    [pc |-> "recv", w |-> WorkerNew(cfg), got |-> << >>]]
    /\ main = [pc |-> "reader", error |-> FALSE, jx |-> 1,
               res |-> GcResNew(cfg.read_lengths, cfg.bisulfite),
               ret |-> NoResult, exit |-> "running",
               json |-> FALSE, dist |-> FALSE]

\* reader(): rdr.get_seq()
ReaderGetSeq ==
    /\ main.pc = "reader"
    /\ rdr.pc = "fill"
    /\ rdr' = get_seq(rdr, cap)
    /\ UNCHANGED << rdrInputs, out, procVars >>

\* reader(): fill_buf() fails with an I/O error
ReaderIoError ==
    /\ main.pc = "reader"
    /\ rdr.pc = "fill"
    /\ rdr' = [rdr EXCEPT !.pc = "err"]
    /\ UNCHANGED << rdrInputs, out, procVars >>

\* reader(): snd.send(s), which blocks while the channel is full and fails
\* when no Receiver is left
ReaderSend ==
    /\ main.pc = "reader"
    /\ rdr.pc = "returned"
    /\ rdr.ret.some
    /\ IF \A w \in DOMAIN workers : WorkerDead(w)
       THEN /\ rdr' = [rdr EXCEPT !.pc = "err"]
            /\ UNCHANGED << out, chan >>
       ELSE /\ Len(chan) < ChanCapacity
            /\ chan' = Append(chan, [v |-> rdr.ret.v, vsrc |-> rdr.ret.vsrc])
            /\ out' = Append(out, [v |-> rdr.ret.v, vsrc |-> rdr.ret.vsrc])
            /\ rdr' = GetSeqEnter(rdr)
    /\ UNCHANGED << rdrInputs, cfg, ps, snd_alive, workers, main >>

\* reader(): get_seq returned None; the k-mer file is written when there is
\* a catalogue, which can fail; reader() returns and seq_send is dropped
ReaderDone ==
    /\ main.pc = "reader"
    /\ rdr.pc = "returned"
    /\ ~rdr.ret.some
    /\ \E write_ok \in IF catalogue.present THEN BOOLEAN ELSE {TRUE} :
          main' = [main EXCEPT !.pc = "join", !.error = ~write_ok]
    /\ rdr' = [rdr EXCEPT !.pc = "done"]
    /\ snd_alive' = SenderAliveAfterReader
    /\ UNCHANGED << rdrInputs, out, cfg, ps, chan, workers >>

\* process(): reader() returned Err
ReaderFailed ==
    /\ main.pc = "reader"
    /\ rdr.pc = "err"
    /\ main' = [main EXCEPT !.pc = "join", !.error = TRUE]
    /\ snd_alive' = SenderAliveAfterReader
    /\ UNCHANGED << rdrInputs, rdr, out, cfg, ps, chan, workers >>

\* an assert! of get_seq failed: the panic unwinds out of reader(), which
\* drops seq_send, into the scope
ReaderPanicked ==
    /\ main.pc = "reader"
    /\ rdr.pc = "panic"
    /\ main' = [main EXCEPT !.pc = "unwind"]
    /\ snd_alive' = SenderAliveAfterReader
    /\ UNCHANGED << rdrInputs, rdr, out, cfg, ps, chan, workers >>

\* process_thread: rx.recv() returns Ok(s), followed by
\* process_seq(cfg, s, &mut res, &mut work), which touches nothing shared
WorkerRecv(w) ==
    /\ w \in DOMAIN workers
    /\ workers[w].pc = "recv"
    /\ chan # << >>
    /\ LET nw == process_seq(cfg, Head(chan).v, workers[w].w)
       IN  workers' = [workers EXCEPT ![w].w = nw,
                                      ![w].got = Append(@, Head(chan)),
                                      ![w].pc = IF nw.panic THEN "panicked"
                                                ELSE "recv"]
    /\ chan' = ChanAfterRecv(chan)
    /\ UNCHANGED << rdrInputs, rdr, out, cfg, ps, snd_alive, main >>

\* process_thread: rx.recv() returns Err, the loop ends, Ok(res) is returned
WorkerExit(w) ==
    /\ w \in DOMAIN workers
    /\ workers[w].pc = "recv"
    /\ RecvDisconnected
    /\ workers' = [workers EXCEPT ![w].pc = "exited"]
    /\ UNCHANGED << rdrInputs, rdr, out, cfg, ps, chan, snd_alive, main >>

\* process(): jh.join() of the next process thread and res += r
MainJoin ==
    /\ main.pc = "join"
    /\ main.jx <= cfg.threads
    /\ WorkerDead(main.jx)
    /\ IF workers[main.jx].pc = "panicked"
          \/ ~AddAssignOk(main.res, workers[main.jx].w.res)
       THEN main' = [main EXCEPT !.pc = "unwind"]
       ELSE main' = [main EXCEPT !.res = add_assign(@, workers[main.jx].w.res),
                                 !.jx = @ + 1]
    /\ UNCHANGED << rdrInputs, rdr, out, cfg, ps, chan, snd_alive, workers >>

\* process(): the scope has ended; Err if error was set, Ok(res) otherwise
MainReturn ==
    /\ main.pc = "join"
    /\ main.jx > cfg.threads
    /\ main' = [main EXCEPT !.ret = ProcessResult(main.error, main.res),
                             !.pc = IF ProcessResult(main.error, main.res).ok
                                    THEN "ok" ELSE "err"]
    /\ UNCHANGED << rdrInputs, rdr, out, cfg, ps, chan, snd_alive, workers >>

\* the scope joins the threads still running before the panic goes on
MainUnwound ==
    /\ main.pc = "unwind"
    /\ \A w \in DOMAIN workers : WorkerDead(w)
    /\ main' = [main EXCEPT !.pc = "panicked"]
    /\ UNCHANGED << rdrInputs, rdr, out, cfg, ps, chan, snd_alive, workers >>

\* main(): process::process(&cfg)? returned Err, main returns it
MainPropagate ==
    /\ main.pc = "err"
    /\ main.exit = "running"
    /\ main' = [main EXCEPT !.exit = "err"]
    /\ UNCHANGED << rdrInputs, rdr, out, cfg, ps, chan, snd_alive, workers >>

\* output(): output_json(name, cfg, res)?, which opens {prefix}.json and
\* serializes into it; either step can fail
OutputJson ==
    /\ main.pc = "ok"
    /\ main.exit = "running"
    /\ \E opened \in BOOLEAN : \E written \in BOOLEAN :
          main' = [main EXCEPT !.json = opened,
                               !.exit = IF opened /\ written THEN "json"
                                        ELSE "err"]
    /\ UNCHANGED << rdrInputs, rdr, out, cfg, ps, chan, snd_alive, workers >>

\* output(): output_dist(name, ...), which opens {prefix}_dist.txt and
\* writes the distributions; its result is the result of main
OutputDist ==
    /\ main.exit = "json"
    /\ \E opened \in BOOLEAN : \E written \in BOOLEAN :
          main' = [main EXCEPT !.dist = opened,
                               !.exit = IF opened /\ written THEN "ok"
                                        ELSE "err"]
    /\ UNCHANGED << rdrInputs, rdr, out, cfg, ps, chan, snd_alive, workers >>

MainThread ==
    \/ MainPropagate
    \/ OutputJson
    \/ OutputDist
    \/ ReaderGetSeq
    \/ ReaderIoError
    \/ ReaderSend
    \/ ReaderDone
    \/ ReaderFailed
    \/ ReaderPanicked
    \/ MainJoin
    \/ MainReturn
    \/ MainUnwound

WorkerThread(w) == WorkerRecv(w) \/ WorkerExit(w)

ProcNext == MainThread \/ \E w \in 1..MaxThreads : WorkerThread(w)

SpecProc == ProcInit /\ [][ProcNext]_vars

\* the threads are scheduled: while some thread can take a step, one does
SpecProcFair == ProcInit /\ [][ProcNext]_vars /\ WF_vars(ProcNext)

(***************************************************************************)
(* The FASTA layout of the stream, read off the bytes themselves: a line   *)
(* that starts with '>' is an id line, every other byte that is not a      *)
(* newline is a sequence character of the contig named by the last id      *)
(* line before it.                                                         *)
(***************************************************************************)
LineStart(i) == i = 1 \/ stream[i - 1] = "\n"

IsHeaderStart(i) == LineStart(i) /\ stream[i] = ">"

InHeader(i) ==
    \E h \in 1..i : /\ IsHeaderStart(h)
                    /\ \A j \in h..(i - 1) : stream[j] # "\n"

IsSeqChar(i) == i \in 1..Len(stream) /\ ~InHeader(i) /\ stream[i] # "\n"

IsNonGapChar(i) == IsSeqChar(i) /\ ~is_gap(from_u8(stream[i]))

IsGapChar(i) == IsSeqChar(i) /\ is_gap(from_u8(stream[i]))

\* the '>' of the id line of the contig byte i belongs to (0 if none)
ContigStart(i) ==
    IF \E h \in 1..i : IsHeaderStart(h)
    THEN CHOOSE h \in 1..i : IsHeaderStart(h) /\ \A g \in (h + 1)..i : ~IsHeaderStart(g)
    ELSE 0

\* 0-based offset of sequence character i within its contig
ContigOffset(i) == Cardinality({j \in (ContigStart(i) + 1)..(i - 1) : IsSeqChar(j)})

\* the name on the id line that starts at h: up to the first whitespace
RECURSIVE IdFrom(_)
IdFrom(j) ==
    IF j > Len(stream) \/ stream[j] = "\n" \/ stream[j] \in WhitespaceBytes
    THEN << >>
    ELSE << stream[j] >> \o IdFrom(j + 1)

ContigName(i) == IdFrom(ContigStart(i) + 1)

\* byte i lies in a region [start, start+size) of its contig
InRegion(i) ==
    LET rs == RegionsGet(catalogue, ContigName(i))
    IN  \E k \in 1..Len(rs) : /\ rs[k].start <= ContigOffset(i)
                              /\ ContigOffset(i) < rs[k].start + rs[k].size

\* the stream ends with a newline, as a text file does
NewlineTerminated == stream[Len(stream)] = "\n"

(***************************************************************************)
(* The reader run to its end as a function: the outcome and the Seqs of a  *)
(* reader with buffer capacity cp.                                         *)
(***************************************************************************)
RECURSIVE ReaderRun(_, _, _)
ReaderRun(r, cp, acc) ==
    LET q == get_seq(r, cp) IN
    IF q.pc # "returned" THEN [pc |-> q.pc, seqs |-> acc]
    ELSE IF ~q.ret.some THEN [pc |-> "done", seqs |-> acc]
    ELSE ReaderRun(GetSeqEnter(q), cp, Append(acc, q.ret.v))

Finished == rdr.pc \in {"done", "err", "panic"}

OutSeqs == [i \in 1..Len(out) |-> out[i].v]

(***************************************************************************)
(* C1: every Seq returned by get_seq has a first base and a last base      *)
(* that are not gap bases.                                                 *)
(***************************************************************************)
C1_NoGapAtEnds ==
    \A i \in 1..Len(out) :
        /\ ~is_gap(out[i].v[1])
        /\ ~is_gap(out[i].v[Len(out[i].v)])

(***************************************************************************)
(* C2: the results of the successive get_seq calls do not depend on how    *)
(* the BufRead splits the stream into chunks: a reader with any capacity   *)
(* ends like the reader that sees the whole stream as one chunk.           *)
(***************************************************************************)
C2_ChunkingInvariant ==
    Finished =>
        [pc |-> rdr.pc, seqs |-> OutSeqs] = ReaderRun(RdrNew, Len(stream), << >>)

(***************************************************************************)
(* C3: a base appended to a Seq is N exactly when a catalogue is present   *)
(* and the base's position is outside every region of its contig;          *)
(* otherwise it is the base read from the input.                           *)
(***************************************************************************)
C3_MaskedIffOffTarget ==
    \A i \in 1..Len(out) : \A k \in 1..Len(out[i].v) :
        LET at == out[i].vsrc[k] IN
        out[i].v[k] = IF catalogue.present /\ ~InRegion(at)
                      THEN BaseN ELSE from_u8(stream[at])

(***************************************************************************)
(* C5: within one contig two non-gap bases are in the same Seq iff no run  *)
(* of at least max_read_length gap bases lies between them, and a Seq      *)
(* holds every sequence character between its first and its last base.     *)
(***************************************************************************)
SameSeq(i, j) ==
    \E n \in 1..Len(out) :
        /\ \E k \in 1..Len(out[n].vsrc) : out[n].vsrc[k] = i
        /\ \E k \in 1..Len(out[n].vsrc) : out[n].vsrc[k] = j

\* a..b is a stretch of gap characters (and newlines) with at least
\* max_read_length gap characters
LongGapRun(a, b) ==
    /\ \A j \in a..b : IsGapChar(j) \/ stream[j] = "\n"
    /\ Cardinality({j \in a..b : IsGapChar(j)}) >= max_read_length

LongGapBetween(i, j) ==
    \E a \in (i + 1)..(j - 1) : \E b \in a..(j - 1) : LongGapRun(a, b)

C5_SplitAtLongGaps ==
    rdr.pc = "done" =>
        /\ \A i \in 1..Len(stream) : \A j \in (i + 1)..Len(stream) :
             (IsNonGapChar(i) /\ IsNonGapChar(j) /\ ContigStart(i) = ContigStart(j))
                 => (SameSeq(i, j) <=> ~LongGapBetween(i, j))
        /\ \A n \in 1..Len(out) :
             LET src == out[n].vsrc
                 lo == src[1]
                 hi == src[Len(src)]
             IN  {src[k] : k \in 1..Len(src)} = {j \in lo..hi : IsSeqChar(j)}

(***************************************************************************)
(* The windows of a Seq, read off its bases: window p of read length L is  *)
(* the L bases that end at the p-th base process_seq has taken, positions  *)
(* before the Seq and after it counting as gaps.                           *)
(***************************************************************************)
BaseAtPos(q) == IF q \in 1..Len(ps.s) THEN ps.s[q] ELSE BaseOther

Window(p, L) == (p - L + 1)..p

WinAT(p, L) == Cardinality({q \in Window(p, L) : BaseAtPos(q) \in {BaseA, BaseT}})

WinGC(p, L) == Cardinality({q \in Window(p, L) : BaseAtPos(q) \in {BaseC, BaseG}})

WinKey(p, L) == << WinAT(p, L), WinGC(p, L) >>

\* the window holds at least ceil(L * T) non-gap bases
Qualifies(p, L) == (WinAT(p, L) + WinGC(p, L)) * cfg.tden >= L * cfg.tnum

\* how many times L is listed in read_lengths
Mult(L) == Cardinality({ix \in 1..Len(cfg.read_lengths) : cfg.read_lengths[ix] = L})

(***************************************************************************)
(* C6: every point (at, gc) in the histogram of read length L has          *)
(* ceil(L*T) <= at + gc <= L, and the histogram holds one point for every  *)
(* window position whose non-gap count reaches ceil(L*T) and no other      *)
(* (once per listing of L in read_lengths); with T = 1 only full windows   *)
(* contribute.                                                             *)
(***************************************************************************)
C6_ThresholdGating ==
    ps.pc \in {"clear", "loop", "done"} =>
        \A L \in DOMAIN ps.w.res :
            LET h == ps.w.res[L].counts IN
            /\ \A k \in DOMAIN h : /\ L * cfg.tnum <= (k[1] + k[2]) * cfg.tden
                                   /\ k[1] + k[2] <= L
                                   /\ cfg.tnum = cfg.tden => k[1] + k[2] = L
            /\ \A p \in 1..ps.i : Qualifies(p, L) => WinKey(p, L) \in DOMAIN h
            /\ \A k \in DOMAIN h :
                 h[k] = Mult(L) * Cardinality({p \in 1..ps.i :
                                                 Qualifies(p, L) /\ WinKey(p, L) = k})

\* a finished call with a threshold below 1 where one window was counted
\* and another, not empty, was rejected
C6_Witness ==
    /\ ps.pc = "done"
    /\ cfg.tnum < cfg.tden
    /\ \E L \in DOMAIN ps.w.res :
         /\ DOMAIN ps.w.res[L].counts # {}
         /\ \E p \in 1..ps.i : ~Qualifies(p, L) /\ WinAT(p, L) + WinGC(p, L) > 0

(***************************************************************************)
(* C7 as stated: a Seq shorter than read length L adds no histogram entry  *)
(* for L, whatever the threshold.                                          *)
(***************************************************************************)
C7_ShortSeqNoEntry ==
    ps.pc \in {"clear", "loop", "done"} =>
        \A L \in DOMAIN ps.w.res :
            Len(ps.s) < L => /\ DOMAIN ps.w.res[L].counts = {}
                             /\ DOMAIN ps.w.res[L].bisulfite_counts = {}

(***************************************************************************)
(* C7 amended: a Seq shorter than ceil(L*T) adds no histogram entry for L. *)
(***************************************************************************)
C7_BelowThresholdNoEntry ==
    ps.pc \in {"clear", "loop", "done"} =>
        \A L \in DOMAIN ps.w.res :
            Len(ps.s) * cfg.tden < L * cfg.tnum =>
                /\ DOMAIN ps.w.res[L].counts = {}
                /\ DOMAIN ps.w.res[L].bisulfite_counts = {}

\* a finished call on a Seq of non-gap bases shorter than ceil(L*T)
C7_Witness ==
    /\ ps.pc = "done"
    /\ \A q \in 1..Len(ps.s) : ps.s[q] \in {BaseA, BaseC, BaseT, BaseG}
    /\ \E L \in DOMAIN ps.w.res : Len(ps.s) * cfg.tden < L * cfg.tnum

(***************************************************************************)
(* What one process thread computes from a list of Seqs, starting from an  *)
(* empty GcRes.                                                            *)
(***************************************************************************)
RECURSIVE ProcessAll(_, _, _)
ProcessAll(seqs, i, w) ==
    IF i > Len(seqs) THEN w
    ELSE ProcessAll(seqs, i + 1, process_seq(cfg, seqs[i], w))

SingleWorker(seqs) == ProcessAll(seqs, 1, WorkerNew(cfg)).res

CountOf(m, k) == IF k \in DOMAIN m THEN m[k] ELSE 0

Count(q, x) == Cardinality({i \in 1..Len(q) : q[i] = x})

RECURSIVE SumOver(_, _)
SumOver(f, S) ==
    IF S = {} THEN 0
    ELSE LET x == CHOOSE y \in S : TRUE IN f[x] + SumOver(f, S \ {x})

\* total number of points in a histogram
MapTotal(m) == SumOver(m, DOMAIN m)

(***************************************************************************)
(* C4: end to end, one contig of n gap-free bases, no catalogue, bisulfite *)
(* off, T = 1 and one read length L <= n give a histogram with one count   *)
(* per length-L window under the window's (AT, GC) key, n-L+1 in total;    *)
(* NNNACGTNNN with L = 4 gives the single Seq ACGT and {(2,2): 1}.         *)
(***************************************************************************)
SeqCharIdx == {i \in 1..Len(stream) : IsSeqChar(i)}

\* the sequence characters of a stream with a single id line, in order
RECURSIVE BasesOf(_)
BasesOf(S) ==
    IF S = {} THEN << >>
    ELSE LET i == CHOOSE x \in S : \A y \in S : x <= y
         IN  << from_u8(stream[i]) >> \o BasesOf(S \ {i})

OneGapFreeContig ==
    /\ Cardinality({h \in 1..Len(stream) : IsHeaderStart(h)}) = 1
    /\ IsHeaderStart(1)
    /\ NewlineTerminated
    /\ \A i \in SeqCharIdx : IsNonGapChar(i)

KeyOf(bases, j, L) ==
    << Cardinality({q \in j..(j + L - 1) : bases[q] \in {BaseA, BaseT}}),
       Cardinality({q \in j..(j + L - 1) : bases[q] \in {BaseC, BaseG}}) >>

C4_EndToEnd ==
    (/\ main.pc = "ok"
     /\ ~catalogue.present
     /\ ~cfg.bisulfite
     /\ cfg.tnum = cfg.tden
     /\ Len(cfg.read_lengths) = 1)
    => LET L == cfg.read_lengths[1]
           h == main.res[L].counts
           bases == BasesOf(SeqCharIdx)
           n == Len(bases)
       IN  /\ (OneGapFreeContig /\ L <= n) =>
                 /\ MapTotal(h) = n - L + 1
                 /\ DOMAIN h = {KeyOf(bases, j, L) : j \in 1..(n - L + 1)}
                 /\ \A k \in DOMAIN h :
                      h[k] = Cardinality({j \in 1..(n - L + 1) : KeyOf(bases, j, L) = k})
           /\ (stream = StreamFlankedByN /\ L = 4) =>
                 /\ OutSeqs = << << BaseA, BaseC, BaseG, BaseT >> >>
                 /\ DOMAIN h = {<< 2, 2 >>}
                 /\ h[<< 2, 2 >>] = 1

(***************************************************************************)
(* C8: merging GcRes values with += is commutative, associative and the    *)
(* pointwise sum of the counts, and the partial GcRes of the process       *)
(* threads, merged in any order, give what one thread computes from all    *)
(* the Seqs they have processed.                                           *)
(***************************************************************************)
ResSet == {workers[w].w.res : w \in DOMAIN workers} \cup {main.res}

MapIsSum(p, q, r) ==
    /\ DOMAIN r = DOMAIN p \cup DOMAIN q
    /\ \A k \in DOMAIN r : r[k] = CountOf(p, k) + CountOf(q, k)

IsPointwiseSum(p, q, r) ==
    /\ DOMAIN r = DOMAIN p
    /\ \A L \in DOMAIN r :
         /\ MapIsSum(p[L].counts, q[L].counts, r[L].counts)
         /\ MapIsSum(p[L].bisulfite_counts, q[L].bisulfite_counts,
                     r[L].bisulfite_counts)

\* the Seqs worker w has run process_seq on
ProcessedBy(w) == workers[w].got

IsProcessed(x) == \E w \in DOMAIN workers : Count(ProcessedBy(w), x) > 0

\* the processed Seqs in the order the reader produced them
RECURSIVE ProcessedInOrder(_)
ProcessedInOrder(i) ==
    IF i > Len(out) THEN << >>
    ELSE (IF IsProcessed(out[i]) THEN << out[i].v >> ELSE << >>)
             \o ProcessedInOrder(i + 1)

RECURSIVE MergeInOrder(_, _, _)
MergeInOrder(pi, i, acc) ==
    IF i > Len(workers) THEN acc
    ELSE MergeInOrder(pi, i + 1, add_assign(acc, workers[pi[i]].w.res))

C8_MergeOrderInsensitive ==
    main.pc \in {"reader", "join", "ok", "err"} =>
        /\ \A p \in ResSet : \A q \in ResSet :
             /\ add_assign(p, q) = add_assign(q, p)
             /\ IsPointwiseSum(p, q, add_assign(p, q))
             /\ \A r \in ResSet :
                  add_assign(add_assign(p, q), r) = add_assign(p, add_assign(q, r))
        /\ \A pi \in Permutations(DOMAIN workers) :
             MergeInOrder(pi, 1, GcResNew(cfg.read_lengths, cfg.bisulfite))
                 = SingleWorker(ProcessedInOrder(1))

\* two threads have each processed a Seq and their histograms share a key
\* and differ in another
C8_Witness ==
    /\ main.pc = "ok"
    /\ Len(workers) >= 2
    /\ \E a \in DOMAIN workers : \E b \in DOMAIN workers :
         /\ a # b
         /\ ProcessedBy(a) # << >>
         /\ ProcessedBy(b) # << >>
         /\ \E L \in DOMAIN main.res :
              LET ha == workers[a].w.res[L].counts
                  hb == workers[b].w.res[L].counts
              IN  /\ DOMAIN ha \cap DOMAIN hb # {}
                  /\ DOMAIN hb \ DOMAIN ha # {}

(***************************************************************************)
(* C9: every Seq the reader sends is received by exactly one process       *)
(* thread, which processes it once, and the GcRes process() returns on     *)
(* success is the one a single thread computes from the reader's Seqs,     *)
(* whatever the interleaving.                                              *)
(***************************************************************************)
Receipts(x) ==
    SumOver([w \in DOMAIN workers |-> Count(workers[w].got, x)], DOMAIN workers)

C9_ExactlyOnce ==
    /\ \A i \in 1..Len(out) : Count(out, out[i]) = 1
    /\ \A i \in 1..Len(out) : Count(chan, out[i]) + Receipts(out[i]) = 1
    /\ \A i \in 1..Len(chan) : Count(out, chan[i]) = 1
    /\ \A w \in DOMAIN workers :
         /\ \A i \in 1..Len(workers[w].got) : Count(out, workers[w].got[i]) = 1
         /\ workers[w].w.res
              = SingleWorker([i \in 1..Len(ProcessedBy(w)) |-> ProcessedBy(w)[i].v])
    /\ main.pc = "ok" =>
         /\ chan = << >>
         /\ \A i \in 1..Len(out) : IsProcessed(out[i])
         /\ OutSeqs = ReaderRun(RdrNew, cap, << >>).seqs
         /\ main.res = SingleWorker(ReaderRun(RdrNew, cap, << >>).seqs)

\* process() has returned Ok after two threads have each processed Seqs
C9_Witness ==
    /\ main.pc = "ok"
    /\ Len(out) >= 3
    /\ Len(workers) >= 2
    /\ \A w \in DOMAIN workers : workers[w].got # << >>
    /\ \E L \in DOMAIN main.res : DOMAIN main.res[L].counts # {}

(***************************************************************************)
(* C10: once the reader has yielded None or has failed, the channel is     *)
(* eventually closed and empty, every process thread has left its loop,    *)
(* and process() has joined them all and returned.                         *)
(***************************************************************************)
ReaderEnded == (rdr.pc = "returned" /\ ~rdr.ret.some) \/ rdr.pc = "err"

ProcessReturned ==
    /\ main.pc \in {"ok", "err"}
    /\ ~snd_alive
    /\ chan = << >>
    /\ main.jx = cfg.threads + 1
    /\ \A w \in DOMAIN workers : workers[w].pc = "exited"

C10_Termination == ReaderEnded ~> ProcessReturned

\* the reader failed after it had sent a Seq, and process() has returned
\* with both threads joined
C10_Witness ==
    /\ ProcessReturned
    /\ rdr.pc = "err"
    /\ Len(workers) >= 2
    /\ out # << >>
    /\ \E w \in DOMAIN workers : workers[w].got # << >>

(***************************************************************************)
(* C11: the channel never holds more than 4 * N Seqs (N process threads):  *)
(* a send only completes while it holds fewer, so a full channel takes a   *)
(* Seq only after a thread has received one, and the Seqs are received in  *)
(* the order they were sent.                                               *)
(***************************************************************************)
TotalReceived ==
    SumOver([w \in DOMAIN workers |-> Len(workers[w].got)], DOMAIN workers)

ChannelIsUnreceivedTail ==
    /\ Len(chan) <= 4 * cfg.threads
    /\ chan = SubSeq(out, TotalReceived + 1, Len(out))

SendOrRecvStep ==
    /\ Len(out') > Len(out) =>
          /\ Len(chan) < 4 * cfg.threads
          /\ chan' = Append(chan, out'[Len(out')])
    /\ \A w \in DOMAIN workers :
          Len(workers'[w].got) > Len(workers[w].got) =>
              /\ workers'[w].got = Append(workers[w].got, out[TotalReceived + 1])
              /\ chan' = Tail(chan)

C11_BoundedFifo == [](ChannelIsUnreceivedTail) /\ [][SendOrRecvStep]_vars

\* the channel of one thread is full and the reader holds a fifth Seq,
\* after the thread has already received one
C11_Witness ==
    /\ Len(chan) = 4 * cfg.threads
    /\ main.pc = "reader"
    /\ rdr.pc = "returned"
    /\ rdr.ret.some
    /\ TotalReceived >= 1

(***************************************************************************)
(* C12: when the reader fails on an I/O error or on malformed FASTA, the   *)
(* channel is closed, the process threads still process every Seq that     *)
(* was sent and exit, process() joins them all before it returns, it       *)
(* returns Err and no GcRes, and main writes neither the JSON file nor     *)
(* the distribution file.                                                  *)
(***************************************************************************)
C12_ReaderFailure ==
    (rdr.pc = "err" /\ main.pc # "reader") =>
        /\ ~snd_alive
        /\ main.pc \in {"join", "err"}
        /\ main.exit \in {"running", "err"}
        /\ ~main.json
        /\ ~main.dist
        /\ \A w \in DOMAIN workers : workers[w].pc \in {"recv", "exited"}
        /\ \A w \in DOMAIN workers :
             (workers[w].pc = "exited" \/ main.jx > w) =>
                 /\ workers[w].pc = "exited"
                 /\ chan = << >>
                 /\ \A i \in 1..Len(out) : IsProcessed(out[i])
        /\ main.pc = "err" =>
             /\ main.ret = ProcessErr
             /\ main.jx = cfg.threads + 1
             /\ \A w \in DOMAIN workers : workers[w].pc = "exited"

\* the reader failed on a malformed byte after it had sent a Seq, which
\* was still processed, and main has returned the error
C12_Witness ==
    /\ rdr.pc = "err"
    /\ stream = StreamIllegal
    /\ main.exit = "err"
    /\ out # << >>
    /\ \A i \in 1..Len(out) : IsProcessed(out[i])

(***************************************************************************)
(* read_bed() and Regions::normalize().  catalogue is the Regions being    *)
(* built, main the thread that runs read_bed(): its position, the line     *)
(* counter, the running index ix of normalize(), the contigs normalize()   *)
(* has visited, the value it returned and a log of the records added.      *)
(***************************************************************************)
MaxBedLines == 3
MaxBedPos == 3

BedContigs == {<< "A" >>, << "B" >>}

\* the records of a line: contig, start and end
BedRecords ==
    {[ctg |-> c, start |-> a, end |-> b] :
        c \in BedContigs, a \in 0..MaxBedPos, b \in 0..MaxBedPos}

\* the file "c1\t10\t20\nc1\t15\t25\n"
BedExample ==
    << [ctg |-> << "c", "1" >>, start |-> 10, end |-> 20],
       [ctg |-> << "c", "1" >>, start |-> 15, end |-> 25] >>

\* impl Ord for Region: by start, then by size
RegionCmpLe(a, b) == a.start < b.start \/ (a.start = b.start /\ a.size <= b.size)

\* the orders sort_unstable() can leave the regions in
SortedOrders(regs) ==
    {pi \in Permutations(DOMAIN regs) :
        \A i \in DOMAIN regs : \A j \in DOMAIN regs :
            i < j => RegionCmpLe(regs[pi[i]], regs[pi[j]])}

NoPending == [some |-> FALSE]

\* a merge test that lets touching regions stand
Overlaps_Strict(p, reg) == RegionEnd(p) > reg.start

\* p.end() >= reg.start()
Overlaps(p, reg) == RegionEnd(p) >= reg.start

\* a region that keeps the line number it was created with
Indexed_Kept(p, ix) == p

\* p.idx = ix.try_into().unwrap(), after ix += 1
Indexed(p, ix) == [p EXCEPT !.idx = ix]

\* the loop of sort_and_merge over the sorted regions and the final push
RECURSIVE MergeLoop(_, _, _, _, _)
MergeLoop(sorted, i, pending, r, ix) ==
    IF i > Len(sorted)
    THEN IF pending.some
         THEN [regions |-> Append(r, Indexed(pending.reg, ix + 1)),
               ix |-> ix + 1]
         ELSE [regions |-> r, ix |-> ix]
    ELSE LET reg == sorted[i] IN
         IF pending.some
         THEN LET p == pending.reg IN
              IF Overlaps(p, reg)
              THEN LET q == IF RegionEnd(p) < RegionEnd(reg)
                            THEN [p EXCEPT !.size = RegionEnd(reg) - p.start]
                            ELSE p
                   IN  MergeLoop(sorted, i + 1, [some |-> TRUE, reg |-> q], r, ix)
              ELSE MergeLoop(sorted, i + 1, [some |-> TRUE, reg |-> reg],
                             Append(r, Indexed(p, ix + 1)), ix + 1)
         ELSE MergeLoop(sorted, i + 1, [some |-> TRUE, reg |-> reg], r, ix)

\* ContigRegions::sort_and_merge, with pi the order the sort leaves
sort_and_merge(regs, pi, ix) ==
    IF regs = << >> THEN [regions |-> << >>, ix |-> ix]
    ELSE MergeLoop([i \in DOMAIN regs |-> regs[pi[i]]], 1, NoPending, << >>, ix)

HasContig(cat, ctg) == \E i \in DOMAIN cat.hash : cat.hash[i].name = ctg

\* Regions::get_or_insert_contig_regions followed by add_region
add_region(cat, ctg, r) ==
    IF HasContig(cat, ctg)
    THEN [cat EXCEPT !.hash =
             [i \in DOMAIN cat.hash |->
                 IF cat.hash[i].name = ctg
                 THEN [cat.hash[i] EXCEPT !.regions = Append(@, r)]
                 ELSE cat.hash[i]]]
    ELSE [cat EXCEPT !.hash = Append(@, [name |-> ctg, regions |-> << r >>])]

\* Regions::n_regions
RECURSIVE n_regions_from(_, _)
n_regions_from(cat, i) ==
    IF i > Len(cat.hash) THEN 0
    ELSE Len(cat.hash[i].regions) + n_regions_from(cat, i + 1)

n_regions(cat) == n_regions_from(cat, 1)

\* Regions::n_contigs
n_contigs(cat) == Len(cat.hash)

BedInit ==
    /\ stream = << >>
    /\ cap = 1
    /\ max_read_length = 1
    /\ rdr = [pc |-> "idle"]
    /\ out = << >>
    /\ catalogue = [present |-> TRUE, hash |-> << >>]
    /\ kmcv = IdleKmcv
    /\ kmers = IdleKmers
    /\ betabin = IdleBetabin
    /\ cfg = IdleCfg
    /\ ps = IdlePs
    /\ chan = << >>
    /\ snd_alive = FALSE
    /\ workers = << >>
    /\ main = [pc |-> "read_bed", line |-> 0, ix |-> 0, done |-> {},
               n_regs |-> 0, added |-> << >>]

bedFrame == << stream, cap, max_read_length, rdr, out, cfg, ps, chan,
               snd_alive, workers, kmcv, kmers, betabin >>

\* the records the next line can hold
NextRecords ==
    BedRecords \cup
        (IF main.line < Len(BedExample)
            /\ main.added = SubSeq(BedExample, 1, main.line)
         THEN {BedExample[main.line + 1]} ELSE {})

\* read_bed: one line is read and parsed; end <= start is an error
BedLine ==
    /\ main.pc = "read_bed"
    /\ main.line < MaxBedLines
    /\ \E rec \in NextRecords :
          IF rec.end <= rec.start
          THEN /\ main' = [main EXCEPT !.pc = "bed_err"]
               /\ UNCHANGED catalogue
          ELSE /\ main' = [main EXCEPT !.line = @ + 1,
                                       !.added = Append(@, rec)]
               /\ catalogue' =
                    add_region(catalogue, rec.ctg,
                               Region(rec.start, rec.end - rec.start, main.line + 1))
    /\ UNCHANGED bedFrame

\* read_bed: read_line fails, or a field is missing or is not a number
BedBadLine ==
    /\ main.pc = "read_bed"
    /\ main' = [main EXCEPT !.pc = "bed_err"]
    /\ UNCHANGED << catalogue, bedFrame >>

\* read_bed: read_line returns 0 and normalize() is entered
BedEof ==
    /\ main.pc = "read_bed"
    /\ main' = [main EXCEPT !.pc = "normalize", !.ix = 0]
    /\ UNCHANGED << catalogue, bedFrame >>

\* normalize(): the next contig of hash.values_mut(), in whatever order
\* the HashMap yields them
NormalizeContig ==
    /\ main.pc = "normalize"
    /\ \E i \in DOMAIN catalogue.hash :
          /\ catalogue.hash[i].name \notin main.done
          /\ \E pi \in SortedOrders(catalogue.hash[i].regions) :
                LET m == sort_and_merge(catalogue.hash[i].regions, pi, main.ix)
                IN  /\ catalogue' = [catalogue EXCEPT !.hash[i].regions = m.regions]
                    /\ main' = [main EXCEPT !.ix = m.ix,
                                            !.done = @ \cup {catalogue.hash[i].name}]
    /\ UNCHANGED bedFrame

\* normalize() returns ix and read_bed returns Ok(regs)
NormalizeReturn ==
    /\ main.pc = "normalize"
    /\ \A i \in DOMAIN catalogue.hash : catalogue.hash[i].name \in main.done
    /\ main' = [main EXCEPT !.pc = "bed_ok", !.n_regs = main.ix]
    /\ UNCHANGED << catalogue, bedFrame >>

BedNext ==
    \/ BedLine
    \/ BedBadLine
    \/ BedEof
    \/ NormalizeContig
    \/ NormalizeReturn

SpecBed == BedInit /\ [][BedNext]_vars

(***************************************************************************)
(* C13: after normalize(), whatever regions were added and in whatever     *)
(* order, the regions of each contig are sorted by start with              *)
(* regions[i].end <= regions[i+1].start, and the idx values of the whole   *)
(* catalogue are pairwise distinct and are exactly 1..n_total.             *)
(***************************************************************************)
Normalized == main.pc = "bed_ok"

AllRegions ==
    {<< i, j >> \in (1..Len(catalogue.hash)) \X (1..MaxBedLines + 1) :
        j <= Len(catalogue.hash[i].regions)}

RegionAt(x) == catalogue.hash[x[1]].regions[x[2]]

C13_SortedDisjointDenseIdx ==
    Normalized =>
        /\ \A i \in DOMAIN catalogue.hash :
             LET rs == catalogue.hash[i].regions IN
             \A j \in 1..(Len(rs) - 1) :
                 /\ rs[j].start <= rs[j + 1].start
                 /\ RegionEnd(rs[j]) <= rs[j + 1].start
        /\ \A x \in AllRegions : \A y \in AllRegions :
             x # y => RegionAt(x).idx # RegionAt(y).idx
        /\ {RegionAt(x).idx : x \in AllRegions} = 1..n_regions(catalogue)

\* two contigs, one of which keeps two regions that were added in
\* descending order
C13_Witness ==
    /\ Normalized
    /\ n_contigs(catalogue) = 2
    /\ n_regions(catalogue) = 3
    /\ \E a \in DOMAIN main.added : \E b \in DOMAIN main.added :
         /\ a < b
         /\ main.added[a].ctg = main.added[b].ctg
         /\ main.added[a].start > main.added[b].end

(***************************************************************************)
(* C14: normalize() merges the regions of a contig that overlap or touch   *)
(* into their union and nothing else: every contig covers the same         *)
(* positions before and after, no two final regions overlap or touch, and  *)
(* the value returned is n_regions(); the file with [10,20) and [15,25)    *)
(* on c1 gives the single region [10,25) with idx 1 and the value 1.       *)
(***************************************************************************)
BedPositions == 0..(MaxBedPos + BedExample[2].end)

CoveredAfter(ctg) ==
    {x \in BedPositions :
        \E i \in DOMAIN catalogue.hash :
            /\ catalogue.hash[i].name = ctg
            /\ \E j \in DOMAIN catalogue.hash[i].regions :
                 LET r == catalogue.hash[i].regions[j]
                 IN  r.start <= x /\ x < RegionEnd(r)}

CoveredBefore(ctg) ==
    {x \in BedPositions :
        \E k \in DOMAIN main.added :
            /\ main.added[k].ctg = ctg
            /\ main.added[k].start <= x
            /\ x < main.added[k].end}

C14_MergeIsUnion ==
    Normalized =>
        /\ \A ctg \in BedContigs \cup {BedExample[1].ctg} :
             CoveredAfter(ctg) = CoveredBefore(ctg)
        /\ {catalogue.hash[i].name : i \in DOMAIN catalogue.hash}
             = {main.added[k].ctg : k \in DOMAIN main.added}
        /\ \A x \in AllRegions : \A y \in AllRegions :
             (x # y /\ x[1] = y[1]) =>
                 \/ RegionEnd(RegionAt(x)) < RegionAt(y).start
                 \/ RegionEnd(RegionAt(y)) < RegionAt(x).start
        /\ main.n_regs = n_regions(catalogue)
        /\ main.added = BedExample =>
             /\ catalogue.hash
                  = << [name |-> BedExample[1].ctg,
                        regions |-> << Region(10, 15, 1) >>] >>
             /\ main.n_regs = 1

\* three records of one contig, two that overlap and one that touches
\* their union, have become one region
C14_Witness ==
    /\ Normalized
    /\ Len(main.added) = 3
    /\ n_regions(catalogue) = 1
    /\ \E a \in DOMAIN main.added : \E b \in DOMAIN main.added :
         /\ main.added[a].start < main.added[b].start
         /\ main.added[b].start < main.added[a].end
         /\ main.added[a].end < main.added[b].end
    /\ \E a \in DOMAIN main.added : \E b \in DOMAIN main.added :
         main.added[a].end = main.added[b].start

\* the file of the example has been normalized
C14_ExampleWitness == Normalized /\ main.added = BedExample

(***************************************************************************)
(* C15: in bisulfite mode each emission for read length L adds the point   *)
(* (T+A, C+G) once to the primary histogram and the points (T, C) and      *)
(* (A, G) once each to the bisulfite histogram, so the bisulfite total is  *)
(* twice the primary total and the primary histogram is the one computed   *)
(* with bisulfite off; with bisulfite off add_bs_count changes nothing.    *)
(***************************************************************************)
WinCount(p, L, b) == Cardinality({q \in Window(p, L) : BaseAtPos(q) = b})

WinTC(p, L) == << WinCount(p, L, BaseT), WinCount(p, L, BaseC) >>

WinAG(p, L) == << WinCount(p, L, BaseA), WinCount(p, L, BaseG) >>

\* the emissions so far whose strand point is k
StrandPoints(L, k) ==
    Cardinality({p \in 1..ps.i : Qualifies(p, L) /\ WinTC(p, L) = k})
        + Cardinality({p \in 1..ps.i : Qualifies(p, L) /\ WinAG(p, L) = k})

Emissions(L) == Cardinality({p \in 1..ps.i : Qualifies(p, L)})

\* the same bases processed with bisulfite off
BisulfiteOffRes ==
    LET off == [cfg EXCEPT !.bisulfite = FALSE]
    IN  BaseSteps(off, WorkerNew(off),
                  SubSeq(Padded(ps.s, Len(ps.w.work.buf)), 1, ps.i), 1).res

StrandKeys == (0..MaxReadLen + 1) \X (0..MaxReadLen + 1)

C15_BisulfitePoints ==
    ps.pc \in {"clear", "loop", "done"} =>
        \A L \in DOMAIN ps.w.res :
            LET h == ps.w.res[L].counts
                bs == ps.w.res[L].bisulfite_counts
            IN  /\ h = BisulfiteOffRes[L].counts
                /\ MapTotal(h) = Mult(L) * Emissions(L)
                /\ cfg.bisulfite =>
                     /\ ps.w.res[L].has_bs
                     /\ MapTotal(bs) = 2 * MapTotal(h)
                     /\ DOMAIN bs \subseteq StrandKeys
                     /\ \A k \in StrandKeys :
                          CountOf(bs, k) = Mult(L) * StrandPoints(L, k)
                /\ ~cfg.bisulfite =>
                     /\ ~ps.w.res[L].has_bs
                     /\ bs = EmptyMap
                     /\ \A k \in StrandKeys :
                          add_bs_count(ps.w.res, L, k) = ps.w.res

\* a finished bisulfite call with an emission whose two strand points
\* differ and are both non-zero
C15_Witness ==
    /\ ps.pc = "done"
    /\ cfg.bisulfite
    /\ \E L \in DOMAIN ps.w.res : \E p \in 1..ps.i :
         /\ Qualifies(p, L)
         /\ WinTC(p, L) # WinAG(p, L)
         /\ WinTC(p, L) # << 0, 0 >>
         /\ WinAG(p, L) # << 0, 0 >>
         /\ WinTC(p, L) \in DOMAIN ps.w.res[L].bisulfite_counts
         /\ WinAG(p, L) \in DOMAIN ps.w.res[L].bisulfite_counts

(***************************************************************************)
(* C16: get_seq returns an error when the first byte is not '>', when a    *)
(* byte of sequence data is neither a newline nor a printable character,   *)
(* and when a byte of a sequence id is not printable; an input made only   *)
(* of '>'-headed id lines and sequence lines of printable characters       *)
(* never produces an error.  Printable is read as the code reads it: the   *)
(* graphic characters in sequence data, everything but the control         *)
(* characters (tab aside) in an id.                                        *)
(***************************************************************************)
IsIdByte(i) == InHeader(i) /\ ~IsHeaderStart(i) /\ stream[i] # "\n"

Malformed ==
    \/ stream # << >> /\ stream[1] # ">"
    \/ \E i \in 1..Len(stream) : IsSeqChar(i) /\ ~is_ascii_graphic(stream[i])
    \/ \E i \in 1..Len(stream) : IsIdByte(i) /\ stream[i] \in ControlBytes

C16_ErrorIffMalformed ==
    /\ rdr.pc = "done" => ~Malformed
    /\ rdr.pc = "err" => Malformed

(***************************************************************************)
(* The KMCV file: kmcv/output.rs.  Bytes are the numbers 0..255, a write   *)
(* is the byte sequence of one write_all call.  A u32 is kept as its two   *)
(* 16-bit halves, so that every value up to 2^32 - 1 is there.             *)
(***************************************************************************)
MAJOR_VERSION == 2
MINOR_VERSION == 0
MAX_HITS == 8

Half == 65536

U32(hi, lo) == [hi |-> hi, lo |-> lo]

\* the u32 of a number below 2^31
u32(n) == U32(n \div Half, n % Half)

\* a < n, for a number n below 2^31
U32Lt(a, n) == a.hi < n \div Half \/ (a.hi = n \div Half /\ a.lo < n % Half)

\* a - n, for a number n below 2^31 with n <= a
U32Sub(a, n) ==
    LET borrow == IF a.lo < n % Half THEN 1 ELSE 0
    IN  U32(a.hi - (n \div Half) - borrow, (a.lo + (borrow * Half)) - (n % Half))

\* a + n without overflow, for a number n below 2^31
U32Add(a, n) ==
    LET lo == a.lo + (n % Half)
    IN  U32(a.hi + (n \div Half) + (lo \div Half), lo % Half)

\* x.to_le_bytes() of a u16
u16_to_le_bytes(x) == << x % 256, x \div 256 >>

\* x.to_le_bytes() of a u32
u32_to_le_bytes(a) == u16_to_le_bytes(a.lo) \o u16_to_le_bytes(a.hi)

\* the KmerVec values of the model: empty, one off-target hit, one hit on
\* target 1, hits on targets 1 and 2, an on-target and an off-target hit,
\* and the high multiplicity sentinel 0x80000000
Slots(head) == head \o [i \in 1..(MAX_HITS - Len(head)) |-> u32(0)]

EmptyVec == Slots(<< >>)

HighSentinel == U32(Half \div 2, 0)

MappedVecs ==
    {Slots(<< u32(1) >>), Slots(<< u32(2) >>), Slots(<< u32(2), u32(3) >>),
     Slots(<< u32(2), u32(1) >>), Slots(<< HighSentinel >>)}

\* KmerType::from_kmer_vec
from_kmer_vec(v) ==
    IF v[1] = u32(0) THEN [t |-> "Unmapped", n |-> 0]
    ELSE IF v[1].hi \div (Half \div 2) # 0 THEN [t |-> "HighMultiMap", n |-> 0]
    ELSE IF v[2] = u32(0)
    THEN IF v[1] = u32(1) THEN [t |-> "UniqueOffTarget", n |-> 0]
         ELSE [t |-> "UniqueOnTarget", n |-> 0]
    ELSE LET zeros == {i \in 3..Len(v) : v[i] = u32(0)}
         IN  [t |-> "LowMultiMap",
              n |-> IF zeros = {} THEN Len(v)
                    ELSE (CHOOSE i \in zeros : \A j \in zeros : i <= j) - 1]

\* KmerType::type_code
type_code(kt) ==
    CASE kt.t = "Unmapped" -> 15
      [] kt.t = "UniqueOnTarget" -> 1
      [] kt.t = "LowMultiMap" -> kt.n - 1
      [] kt.t = "UniqueOffTarget" -> 9
      [] kt.t = "HighMultiMap" -> 8

\* a one-byte extension that also takes the escape value
FitsOneByte_Inclusive(s) == U32Lt(s, 256)

\* s < 0xff
FitsOneByte(s) == U32Lt(s, 255)

\* write_type_skip_nhits: the bytes handed to write_all
write_type_skip_nhits(skip, ktype) ==
    IF U32Lt(skip, 15) THEN << ((skip.lo * 16) % 256) + type_code(ktype) >>
    ELSE LET b0 == 240 + type_code(ktype)
             s1 == U32Sub(skip, 15)
         IN  IF FitsOneByte(s1) THEN << b0, s1.lo % 256 >>
             ELSE LET s2 == U32Sub(s1, 255) IN
                  IF U32Lt(s2, 65535) THEN << b0, 255 >> \o u16_to_le_bytes(s2.lo)
                  ELSE << b0, 255, 255, 255 >>
                           \o u32_to_le_bytes(U32Sub(s2, 65535))

(***************************************************************************)
(* write_type_skip_nhits on its own: one skip and one k-mer type are       *)
(* encoded, and the bytes are read back the way the format describes.      *)
(***************************************************************************)
U32Max == U32(Half - 1, Half - 1)

SkipValues ==
    {u32(n) : n \in (0..17) \cup (268..272) \cup (65803..65807)}
        \cup {HighSentinel, U32(Half - 1, 0), U32Sub(U32Max, 1), U32Max}

SkipTypes ==
    {from_kmer_vec(v) : v \in MappedVecs}
        \cup {[t |-> "LowMultiMap", n |-> MAX_HITS]}

u16_from_le_bytes(b) == b[1] + 256 * b[2]

u32_from_le_bytes(b) ==
    U32(u16_from_le_bytes(SubSeq(b, 3, 4)), u16_from_le_bytes(SubSeq(b, 1, 2)))

\* reading a skip back: bits 4-7 of the first byte, then the extension
\* bytes; used is the number of bytes read, 0 when bytes are missing
read_skip(b) ==
    IF b = << >> THEN [used |-> 0, skip |-> u32(0)]
    ELSE IF b[1] \div 16 < 15 THEN [used |-> 1, skip |-> u32(b[1] \div 16)]
    ELSE IF Len(b) < 2 THEN [used |-> 0, skip |-> u32(0)]
    ELSE IF b[2] < 255 THEN [used |-> 2, skip |-> u32(15 + b[2])]
    ELSE IF Len(b) < 4 THEN [used |-> 0, skip |-> u32(0)]
    ELSE IF u16_from_le_bytes(SubSeq(b, 3, 4)) < 65535
    THEN [used |-> 4,
          skip |-> u32(15 + 255 + u16_from_le_bytes(SubSeq(b, 3, 4)))]
    ELSE IF Len(b) < 8 THEN [used |-> 0, skip |-> u32(0)]
    ELSE [used |-> 8,
          skip |-> U32Add(u32_from_le_bytes(SubSeq(b, 5, 8)), 15 + 255 + 65535)]

SkipInit ==
    /\ RdrIdle
    /\ cfg = IdleCfg
    /\ ps = IdlePs
    /\ chan = << >>
    /\ snd_alive = FALSE
    /\ workers = << >>
    /\ main = IdleMain
    /\ kmers = IdleKmers
    /\ betabin = IdleBetabin
    /\ \E skip \in SkipValues : \E ktype \in SkipTypes :
          kmcv = [pc |-> "encode", skip |-> skip, ktype |-> ktype,
                  bytes |-> << >>, back |-> [used |-> 0, skip |-> u32(0)]]

skipFrame == << stream, cap, max_read_length, catalogue, rdr, out, cfg, ps,
                chan, snd_alive, workers, main, kmers, betabin >>

\* write_type_skip_nhits(w, skip, ktype), whose write_all can fail
SkipEncode ==
    /\ kmcv.pc = "encode"
    /\ \/ kmcv' = [kmcv EXCEPT !.pc = "written",
                               !.bytes = write_type_skip_nhits(kmcv.skip, kmcv.ktype)]
       \/ kmcv' = [kmcv EXCEPT !.pc = "io_err"]
    /\ UNCHANGED skipFrame

\* a reader of the file takes the skip from the bytes
SkipDecode ==
    /\ kmcv.pc = "written"
    /\ kmcv' = [kmcv EXCEPT !.pc = "read", !.back = read_skip(kmcv.bytes)]
    /\ UNCHANGED skipFrame

SkipNext == SkipEncode \/ SkipDecode

SpecSkip == SkipInit /\ [][SkipNext]_vars

(***************************************************************************)
(* C20: the variable-width skip encoding is injective and decodable for    *)
(* every u32 skip: nibble s for s < 15; nibble 15 and one byte s-15 for    *)
(* s-15 < 255; 0xFF and two bytes for the next 65535 values; 0xFF, 0xFFFF  *)
(* and four bytes otherwise; 1, 2, 4 or 8 bytes are written, and reading   *)
(* the bytes back gives the skip.                                          *)
(***************************************************************************)
\* the bytes of an encoding that carry the skip: the high nibble of the
\* first byte and the extension bytes
SkipField(b) == << b[1] \div 16, SubSeq(b, 2, Len(b)) >>

EncodedLen(skip) ==
    IF U32Lt(skip, 15) THEN 1
    ELSE IF U32Lt(skip, 15 + 255) THEN 2
    ELSE IF U32Lt(skip, 15 + 255 + 65535) THEN 4
    ELSE 8

KmerLen == 1
MaxMapped == 2

RECURSIVE Pow(_, _)
Pow(b, e) == IF e = 0 THEN 1 ELSE b * Pow(b, e - 1)

\* the number of KmerVecs of the index: 4^k
TableSize == Pow(4, KmerLen)

RndIds == {U32(258, 772), U32Max}

\* a table with the KmerVecs of f at the positions P
TableOf(P, f) == [i \in 1..TableSize |-> IF i \in P THEN f[i] ELSE EmptyVec]

Tables ==
    UNION {{TableOf(P, f) : f \in [P -> MappedVecs]} :
              P \in {Q \in SUBSET (1..TableSize) : Cardinality(Q) <= MaxMapped}}

\* the counters a KmerWork keeps with its table
mapped_kmers(t) == Cardinality({i \in DOMAIN t : t[i] # EmptyVec})

highly_redundant_kmers(t) == Cardinality({i \in DOMAIN t : t[i][1] = HighSentinel})

on_target_kmers(t) ==
    Cardinality({i \in DOMAIN t :
                    /\ t[i][1] # HighSentinel
                    /\ \E j \in DOMAIN t[i] : t[i][j] \notin {u32(0), u32(1)}})

total_hits(t) ==
    SumOver([i \in DOMAIN t |->
                IF t[i][1] = HighSentinel THEN 0
                ELSE Cardinality({j \in DOMAIN t[i] : t[i][j] # u32(0)})],
            DOMAIN t)

KmerWorkOf(t) ==
    [kmers |-> t, mapped |-> mapped_kmers(t), on_target |-> on_target_kmers(t),
     redundant |-> highly_redundant_kmers(t), total_hits |-> total_hits(t)]

\* two contigs, B before A in the order the HashMap yields them
CatalogueTwo ==
    [present |-> TRUE,
     hash |-> << [name |-> << "B" >>, regions |-> << Region(0, 2, 1) >>],
                 [name |-> << "c", "1" >>,
                  regions |-> << Region(1, 1, 2), Region(3, 2, 3) >>] >>]

KmcvCatalogues == {[present |-> TRUE, hash |-> << >>], CatalogueA, CatalogueTwo}

\* str::as_bytes on the characters of the contig names of the model
ByteOf(c) ==
    CASE c = "A" -> 65
      [] c = "B" -> 66
      [] c = "c" -> 99
      [] c = "1" -> 49

as_bytes(name) == [i \in 1..Len(name) |-> ByteOf(name[i])]

\* x.to_le_bytes() of a u64 below 2^31
u64_to_le_bytes(n) == u32_to_le_bytes(u32(n)) \o << 0, 0, 0, 0 >>

Block(kind, writes) == [kind |-> kind, writes |-> writes]

\* KmcvHeader::new and KmcvHeader::write
KmcvHeader(reg, k_work, rnd_id) ==
    Block("header",
          << << 75, 77, 67, 86 >>
                 \o << MAJOR_VERSION, MINOR_VERSION, KmerLen, MAX_HITS >>
                 \o u32_to_le_bytes(rnd_id)
                 \o u32_to_le_bytes(u32(n_contigs(reg)))
                 \o u32_to_le_bytes(u32(n_regions(reg)))
                 \o u64_to_le_bytes(k_work.mapped)
                 \o u64_to_le_bytes(k_work.on_target)
                 \o u64_to_le_bytes(k_work.redundant)
                 \o u64_to_le_bytes(k_work.total_hits) >>)

\* one iteration of write_contig_blocks
contig_block(ctg) ==
    Block("contig", << u16_to_le_bytes(Len(ctg)), as_bytes(ctg) >>)

\* one iteration of the inner loop of write_target_blocks
target_block(ix, r) ==
    Block("target", << u32_to_le_bytes(u32(ix)), u32_to_le_bytes(u32(r.start)),
                       u32_to_le_bytes(u32(RegionEnd(r))) >>)

\* the (contig index, region) pairs in the order write_target_blocks
\* visits them
RECURSIVE TargetsFrom(_, _)
TargetsFrom(reg, i) ==
    IF i > Len(reg.hash) THEN << >>
    ELSE [j \in 1..Len(reg.hash[i].regions) |->
             [ix |-> i - 1, r |-> reg.hash[i].regions[j]]]
         \o TargetsFrom(reg, i + 1)

\* the slots of v before the first empty one
RECURSIVE FilledSlots(_)
FilledSlots(v) ==
    IF v = << >> \/ v[1] = u32(0) THEN << >>
    ELSE << v[1] >> \o FilledSlots(Tail(v))

\* assert_eq!(*x & 0xf0000000, 0) holds for the slots written
KmerBlockOk(v, ktype) ==
    ktype.t \in {"UniqueOnTarget", "LowMultiMap"} =>
        \A i \in 1..Len(FilledSlots(v)) : FilledSlots(v)[i].hi \div 4096 = 0

\* write_kmer_block
kmer_block(v, skip, ktype) ==
    Block("kmer",
          << write_type_skip_nhits(skip, ktype) >>
              \o (IF ktype.t \in {"UniqueOnTarget", "LowMultiMap"}
                  THEN [i \in 1..Len(FilledSlots(v)) |->
                           u32_to_le_bytes(U32Sub(FilledSlots(v)[i], 1))]
                  ELSE << >>))

\* an EOF block that does not take the rnd_id of the header
write_close_Fresh(rnd_id) ==
    Block("eof", << u32_to_le_bytes(u32(0)) \o << 86, 67, 77, 75 >> >>)

\* write_close
write_close(rnd_id) ==
    Block("eof", << u32_to_le_bytes(rnd_id) \o << 86, 67, 77, 75 >> >>)

\* the loops of output_kmers that have nothing left to visit are left
RECURSIVE Settle(_)
Settle(k) ==
    IF k.pc = "contigs" /\ k.i > n_contigs(catalogue)
    THEN Settle([k EXCEPT !.pc = "targets", !.i = 1])
    ELSE IF k.pc = "targets" /\ k.i > n_regions(catalogue)
    THEN Settle([k EXCEPT !.pc = "kmers", !.i = 0, !.prev = 0])
    ELSE IF k.pc = "kmers" /\ k.i >= Len(k.k_work.kmers)
    THEN [k EXCEPT !.pc = "close"]
    ELSE k

\* the outcomes of writing block b: every write_all succeeds and output
\* goes on as k, or one write_all fails after the writes before it and
\* after any part of its own bytes
Written(b, k) ==
    {Settle([k EXCEPT !.file = Append(kmcv.file, b)])}
        \cup UNION {{[kmcv EXCEPT
                         !.pc = "err", !.failed = "write",
                         !.file = IF j = 1 /\ n = 0 THEN @
                                  ELSE Append(@, Block("partial",
                                                       SubSeq(b.writes, 1, j - 1)
                                                           \o << SubSeq(b.writes[j], 1, n) >>))] :
                         n \in 0..(Len(b.writes[j]) - 1)} :
                       j \in 1..Len(b.writes)}

KmcvInit ==
    /\ stream = << >>
    /\ cap = 1
    /\ max_read_length = 1
    /\ rdr = [pc |-> "idle"]
    /\ out = << >>
    /\ cfg = IdleCfg
    /\ ps = IdlePs
    /\ chan = << >>
    /\ snd_alive = FALSE
    /\ workers = << >>
    /\ main = IdleMain
    /\ kmers = IdleKmers
    /\ betabin = IdleBetabin
    /\ catalogue \in KmcvCatalogues
    /\ \E t \in Tables :
          kmcv = [pc |-> "open", k_work |-> KmerWorkOf(t), rnd_id |-> u32(0),
                  file |-> << >>, i |-> 0, prev |-> 0, failed |-> "no"]

\* CompressIo ... .bufwriter() and random()
KOpen ==
    /\ kmcv.pc = "open"
    /\ \/ kmcv' = [kmcv EXCEPT !.pc = "err", !.failed = "open"]
       \/ \E r \in RndIds : kmcv' = [kmcv EXCEPT !.pc = "header", !.rnd_id = r]
    /\ UNCHANGED skipFrame

\* hdr.write(&mut w)?
KHeader ==
    /\ kmcv.pc = "header"
    /\ kmcv' \in Written(KmcvHeader(catalogue, kmcv.k_work, kmcv.rnd_id),
                         [kmcv EXCEPT !.pc = "contigs", !.i = 1])
    /\ UNCHANGED skipFrame

\* write_contig_blocks: the next contig of reg.iter()
KContig ==
    /\ kmcv.pc = "contigs"
    /\ LET ctg == catalogue.hash[kmcv.i].name IN
       IF Len(ctg) > 65535
       THEN kmcv' = [kmcv EXCEPT !.pc = "err", !.failed = "name"]
       ELSE kmcv' \in Written(contig_block(ctg), [kmcv EXCEPT !.i = @ + 1])
    /\ UNCHANGED skipFrame

\* write_target_blocks: the next region
KTarget ==
    /\ kmcv.pc = "targets"
    /\ LET t == TargetsFrom(catalogue, 1)[kmcv.i]
       IN  kmcv' \in Written(target_block(t.ix, t.r), [kmcv EXCEPT !.i = @ + 1])
    /\ UNCHANGED skipFrame

\* write_kmer_blocks: the next KmerVec of the table
KKmer ==
    /\ kmcv.pc = "kmers"
    /\ LET kmer == kmcv.i
           v == kmcv.k_work.kmers[kmer + 1]
           ktype == from_kmer_vec(v)
       IN  IF ktype.t = "Unmapped"
           THEN kmcv' = Settle([kmcv EXCEPT !.i = @ + 1])
           ELSE IF ~KmerBlockOk(v, ktype)
           THEN kmcv' = [kmcv EXCEPT !.pc = "panic"]
           ELSE kmcv' \in Written(kmer_block(v, u32(kmer - kmcv.prev), ktype),
                                  [kmcv EXCEPT !.i = @ + 1, !.prev = kmer])
    /\ UNCHANGED skipFrame

\* write_close(&mut w, rnd_id)?
KClose ==
    /\ kmcv.pc = "close"
    /\ kmcv' \in Written(write_close(kmcv.rnd_id), [kmcv EXCEPT !.pc = "flush"])
    /\ UNCHANGED skipFrame

\* w.flush()
KFlush ==
    /\ kmcv.pc = "flush"
    /\ \/ kmcv' = [kmcv EXCEPT !.pc = "ok"]
       \/ kmcv' = [kmcv EXCEPT !.pc = "err", !.failed = "flush"]
    /\ UNCHANGED skipFrame

KmcvNext ==
    \/ KOpen
    \/ KHeader
    \/ KContig
    \/ KTarget
    \/ KKmer
    \/ KClose
    \/ KFlush

SpecKmcv == KmcvInit /\ [][KmcvNext]_vars

(***************************************************************************)
(* C17.  The layout of the file output_kmers leaves                        *)
(***************************************************************************)
\* the bytes of a block, one write after the other
RECURSIVE Flatten(_)
Flatten(ws) == IF ws = << >> THEN << >> ELSE Head(ws) \o Flatten(Tail(ws))

BlocksOfKind(f, kind) == {i \in 1..Len(f) : f[i].kind = kind}

\* the block kinds of f are header, nc contigs, nt targets, k-mers, eof,
\* in this order and with nothing else
InOrder(f, nc, nt) ==
    /\ Len(f) >= nc + nt + 2
    /\ \A i \in 1..Len(f) :
          f[i].kind = IF i = 1 THEN "header"
                      ELSE IF i <= 1 + nc THEN "contig"
                      ELSE IF i <= 1 + nc + nt THEN "target"
                      ELSE IF i < Len(f) THEN "kmer"
                      ELSE "eof"

C17_WriteErrorWitness ==
    /\ kmcv.failed = "write"
    /\ catalogue = CatalogueTwo
    /\ Len(kmcv.file) = 4
    /\ kmcv.file[4].kind = "partial"

(***************************************************************************)
(* C18, C19.  The skips of the k-mer records                               *)
(***************************************************************************)
IsKmerBlock(b) == b.kind = "kmer"

\* the k-mer records of the file, in the order they were written
KmerRecords == SelectSeq(kmcv.file, IsKmerBlock)

\* the skip count a record carries, decoded from its first write
RecordSkip(b) == read_skip(b.writes[1]).skip

\* the indices of the table that hold a mapped k-mer
MappedIndices ==
    {i \in 0..(TableSize - 1) :
        from_kmer_vec(kmcv.k_work.kmers[i + 1]).t # "Unmapped"}

\* the index of the j-th mapped k-mer in canonical index order
NthMapped(j) ==
    CHOOSE i \in MappedIndices : Cardinality({m \in MappedIndices : m < i}) = j - 1

\* the number of unmapped k-mers at the indices lo .. hi - 1
UnmappedIn(lo, hi) == Cardinality({i \in lo..(hi - 1) : i \notin MappedIndices})

\* the records are those of the mapped k-mers, in index order
RecordsFollowTable ==
    /\ Len(KmerRecords) <= Cardinality(MappedIndices)
    /\ \A j \in 1..Len(KmerRecords) :
          KmerRecords[j]
              = kmer_block(kmcv.k_work.kmers[NthMapped(j) + 1],
                           RecordSkip(KmerRecords[j]),
                           from_kmer_vec(kmcv.k_work.kmers[NthMapped(j) + 1]))

\* C19: the skip count of every record written is the number of unmapped
\* k-mers between the previous record (the start of the table for the
\* first record) and this record, in canonical index order; two adjacent
\* mapped k-mers give a skip of 0.
C19_SkipIsUnmappedRun ==
    \A j \in 1..Len(KmerRecords) :
        RecordSkip(KmerRecords[j])
            = u32(UnmappedIn(IF j = 1 THEN 0 ELSE NthMapped(j - 1) + 1, NthMapped(j)))

\* what write_kmer_blocks writes instead: the distance from the index of
\* the previous record, or from index 0 for the first record
C19_SkipIsIndexDelta ==
    /\ RecordsFollowTable
    /\ \A j \in 1..Len(KmerRecords) :
          RecordSkip(KmerRecords[j])
              = u32(NthMapped(j) - (IF j = 1 THEN 0 ELSE NthMapped(j - 1)))

\* the k-mers at the indices 0 and 1 are mapped and both records are
\* written: the second one carries the skip 1
C19_AdjacentWitness ==
    /\ MappedIndices = {0, 1}
    /\ Len(KmerRecords) = 2
    /\ RecordSkip(KmerRecords[2]) = u32(1)

\* the sum of the skip counts of the records of the file
RECURSIVE SkipSum(_)
SkipSum(recs) ==
    IF recs = << >> THEN 0 ELSE RecordSkip(Head(recs)).lo + SkipSum(Tail(recs))

\* u64::from_le_bytes of a value below 2^16
u64_from_le_bytes(b) == u16_from_le_bytes(SubSeq(b, 1, 2))

\* write_kmer_blocks has returned Ok
KmersWritten == kmcv.pc \in {"close", "flush", "ok"}

\* C18: once write_kmer_blocks has written a table, the sum of the skip
\* counts of the records plus the number of records is the table size
\* 4^k, and the number of records is the mapped count of the header.
C18_SkipsCoverTable ==
    KmersWritten =>
        /\ SkipSum(KmerRecords) + Len(KmerRecords) = TableSize
        /\ Len(KmerRecords)
               = u64_from_le_bytes(SubSeq(Flatten(kmcv.file[1].writes), 21, 28))

\* what holds instead: the skips add up to the index of the last mapped
\* k-mer, and the records are those of the header's mapped count
C18_SkipsReachLastRecord ==
    KmersWritten =>
        /\ Len(KmerRecords) = Cardinality(MappedIndices)
        /\ SkipSum(KmerRecords)
               = IF MappedIndices = {} THEN 0 ELSE NthMapped(Len(KmerRecords))
        /\ Len(KmerRecords)
               = u64_from_le_bytes(SubSeq(Flatten(kmcv.file[1].writes), 21, 28))

\* a table whose only mapped k-mer is at index 1 has been written: one
\* record with skip 1, two of four k-mers accounted for
C18_TrailingWitness ==
    /\ KmersWritten
    /\ MappedIndices = {1}
    /\ SkipSum(KmerRecords) + Len(KmerRecords) = 2

(***************************************************************************)
(* KmerWork: the index of KmerVecs and its counters.  reader.rs builds it  *)
(* with KmerWork::new() and add_kmer(kmer, idx) and kmcv/output.rs reads   *)
(* kmers(), KmerVec and MAX_HITS; add_kmer follows section 4.D of the      *)
(* specification step by step.  A region tag is 0 for None and the region  *)
(* idx otherwise.                                                          *)
(***************************************************************************)
MaxRegionIdx == 8

RegionTags == 0..MaxRegionIdx

\* region_tag_or_0 + 1
HitValue(tag) == u32(tag + 1)

\* slot 0 has the high bit set
Saturated(v) == v[1].hi \div (Half \div 2) # 0

Contains(v, r) == \E i \in DOMAIN v : v[i] = r

EmptySlots(v) == {i \in DOMAIN v : v[i] = u32(0)}

FirstEmpty(v) == CHOOSE i \in EmptySlots(v) : \A j \in EmptySlots(v) : i <= j

\* KmerWork::new()
KmerWorkNew ==
    [kmers |-> [i \in 1..TableSize |-> EmptyVec], mapped |-> 0, on_target |-> 0,
     redundant |-> 0, total_hits |-> 0]

\* a step 2 that looks at slot 0 only
Known_FirstSlot(v, r) == Saturated(v) \/ v[1] = r

\* step 2: the vector is saturated or already contains the hit value
Known(v, r) == Saturated(v) \/ Contains(v, r)

\* add_kmer(kmer, region_tag); a total_hits below zero stands for the
\* unsigned counter taken below zero
add_kmer(w, kmer, tag) ==
    LET v == w.kmers[kmer + 1]
        r == HitValue(tag)
    IN  IF v[1] = u32(0)
        THEN [w EXCEPT !.kmers[kmer + 1] = Slots(<< r >>),
                       !.mapped = @ + 1,
                       !.on_target = IF tag # 0 THEN @ + 1 ELSE @]
        ELSE IF Known(v, r) THEN w
        ELSE IF EmptySlots(v) # {}
        THEN [w EXCEPT !.kmers[kmer + 1][FirstEmpty(v)] = r,
                       !.total_hits = @ + 1,
                       !.on_target = IF FirstEmpty(v) = 2 /\ v[1] = u32(1) /\ tag # 0
                                     THEN @ + 1 ELSE @]
        ELSE [w EXCEPT !.kmers[kmer + 1] = Slots(<< HighSentinel >>),
                       !.total_hits = @ - MAX_HITS,
                       !.redundant = @ + 1]

\* the k-mers the calls are about: the first and the last of the table
KmersHit == {0, TableSize - 1}

\* the orders in which a k-mer meets its hit values: off target first,
\* last, second, and the regions from the highest down
TagOrders ==
    {[i \in 1..(MaxRegionIdx + 1) |-> i - 1],
     [i \in 1..(MaxRegionIdx + 1) |-> IF i > MaxRegionIdx THEN 0 ELSE i],
     [i \in 1..(MaxRegionIdx + 1) |-> IF i = 1 THEN 1 ELSE IF i = 2 THEN 0 ELSE i - 1],
     [i \in 1..(MaxRegionIdx + 1) |-> MaxRegionIdx + 1 - i]}

NoCall == [kmer |-> 0, tag |-> 0, made |-> FALSE]

WorkInit ==
    /\ RdrIdle
    /\ cfg = IdleCfg
    /\ ps = IdlePs
    /\ chan = << >>
    /\ snd_alive = FALSE
    /\ workers = << >>
    /\ main = IdleMain
    /\ kmcv = IdleKmcv
    /\ betabin = IdleBetabin
    /\ \E order \in TagOrders :
          kmers = [pc |-> "work", order |-> order, k_work |-> KmerWorkNew,
                   seen |-> [k \in KmersHit |-> << >>], call |-> NoCall]

workFrame == << stream, cap, max_read_length, catalogue, rdr, out, cfg, ps, chan,
                snd_alive, workers, main, kmcv, betabin >>

\* the hit values of s with v added if it is new
FirstSeen(s, v) == IF \E i \in 1..Len(s) : s[i] = v THEN s ELSE Append(s, v)

\* one add_kmer call of the reader, with a tag the k-mer has met or the
\* next one of the order
AddKmer ==
    /\ kmers.pc = "work"
    /\ \E k \in KmersHit :
       \E j \in 1..Min(Len(kmers.seen[k]) + 1, Len(kmers.order)) :
          LET tag == kmers.order[j] IN
          kmers' = [kmers EXCEPT !.k_work = add_kmer(@, k, tag),
                                 !.seen[k] = FirstSeen(@, HitValue(tag)),
                                 !.call = [kmer |-> k, tag |-> tag, made |-> TRUE]]
    /\ UNCHANGED workFrame

WorkNext == AddKmer

SpecWork == WorkInit /\ [][WorkNext]_vars

(***************************************************************************)
(* C21, C22, C23.  The entries and counters add_kmer leaves                *)
(***************************************************************************)
\* v is n distinct non-zero values followed only by zeros
ListOf(v, n) ==
    /\ \A i \in 1..n : v[i] # u32(0)
    /\ \A i \in (n + 1)..Len(v) : v[i] = u32(0)
    /\ \A i, j \in 1..n : v[i] = v[j] => i = j

Overfull == {k \in KmersHit : Len(kmers.seen[k]) > MAX_HITS}

\* the entries and highly_redundant are what C22 says
EntriesFollowCalls ==
    /\ \A k \in KmersHit :
          kmers.k_work.kmers[k + 1]
              = IF k \in Overfull THEN Slots(<< HighSentinel >>)
                ELSE Slots(kmers.seen[k])
    /\ kmers.k_work.redundant = Cardinality(Overfull)

\* the call just made took the entry of its k-mer to the sentinel
Saturating ==
    /\ kmers'.call.made
    /\ ~Saturated(kmers.k_work.kmers[kmers'.call.kmer + 1])
    /\ Saturated(kmers'.k_work.kmers[kmers'.call.kmer + 1])

TotalHitsOf(w) ==
    SumOver([k \in 1..TableSize |->
                IF Saturated(w.kmers[k]) THEN 0 - 1
                ELSE IF w.kmers[k] = EmptyVec THEN 0
                ELSE MAX_HITS - Cardinality(EmptySlots(w.kmers[k])) - 1],
            1..TableSize)

\* what holds of the counters of section 4.D
C22_CountersOfSteps ==
    /\ EntriesFollowCalls
    /\ kmers.k_work.total_hits = TotalHitsOf(kmers.k_work)
    /\ kmers.k_work.mapped = Cardinality({k \in KmersHit : kmers.seen[k] # << >>})

\* the first k-mer of the table has met MAX_HITS + 1 hit values and no
\* other k-mer has met any: total_hits is below zero
C22_UnderflowWitness ==
    /\ Overfull = {0}
    /\ kmers.seen[TableSize - 1] = << >>
    /\ kmers.k_work.total_hits = 0 - 1

\* the call just made met an entry that was saturated or held its hit value
MetKnownHit ==
    /\ kmers'.call.made
    /\ LET v == kmers.k_work.kmers[kmers'.call.kmer + 1] IN
       Saturated(v) \/ Contains(v, HitValue(kmers'.call.tag))

BINS == 2

MaxWeight == 2

RECURSIVE GCD(_, _)
GCD(a, b) == IF b = 0 THEN a ELSE GCD(b, a % b)

Num(n, d) == [k |-> "num", n |-> n \div GCD(n, d), d |-> d \div GCD(n, d)]

NaN == [k |-> "nan"]

Infinity == [k |-> "inf"]

f64_add(x, y) == Num(x.n * y.d + y.n * x.d, x.d * y.d)

f64_mul(x, y) == Num(x.n * y.n, x.d * y.d)

\* x / y of two finite values that are not negative
f64_div(x, y) ==
    IF y.n = 0 THEN (IF x.n = 0 THEN NaN ELSE Infinity)
    ELSE Num(x.n * y.d, x.d * y.n)

\* p of bin i for the counts a, b, in the integer scale
BinWeight(i, a, b) == Pow(2 * i + 1, a) * Pow(2 * BINS - 2 * i - 1, b)

\* z: the sum of p over the bins
WeightSum(a, b) == SumOver([i \in 0..(BINS - 1) |-> BinWeight(i, a, b)], 0..(BINS - 1))

\* the loop over hash.iter() for one bin: the sum of x * p / z
RECURSIVE BinSum(_, _, _)
BinSum(hash, keys, i) ==
    IF keys = {} THEN Num(0, 1)
    ELSE LET ct == CHOOSE x \in keys : TRUE
             b == ct[1]
             a == ct[2]
         IN  f64_add(BinSum(hash, keys \ {ct}, i),
                     Num(hash[ct] * BinWeight(i, a, b), WeightSum(a, b)))

\* h after the loop over hash.iter()
Column(hash) == [i \in 1..BINS |-> BinSum(hash, DOMAIN hash, i - 1)]

\* t[ix] after the loop over hash.iter()
Normalizer(hash) == Num(MapTotal(hash), 1)

\* the hash column ix is built from
ColumnHash(res, read_len, ix) ==
    LET gc_hist == res[read_len[(ix % Len(read_len)) + 1]]
    IN  IF ix < Len(read_len) THEN gc_hist.counts ELSE gc_hist.bisulfite_counts

\* the header line: gc and the labels of the columns
HistHeader(read_len, bisulfite) ==
    << "gc" >> \o
    Flatten([j \in 1..Len(read_len) |->
                << << "read_len", read_len[j] >> >>
                    \o (IF bisulfite THEN << << "bisulfite_read_len", read_len[j] >> >>
                        ELSE << >>)])

\* the values of row i after lnp[i].0
HistRow(h, t, l, bisulfite, i) ==
    Flatten([j \in 1..l |->
                << f64_div(f64_mul(h[j][i], Num(BINS, 1)), t[j]) >>
                    \o (IF bisulfite
                        THEN << f64_div(f64_mul(h[j + l][i], Num(BINS, 1)), t[j + l]) >>
                        ELSE << >>)])

\* the histograms of one read length l: none, one key, two keys
HistMaps(l) ==
    {EmptyMap} \cup {MapInc(EmptyMap, << l, 0 >>, x) : x \in 1..MaxWeight}
               \cup {MapInc(MapInc(EmptyMap, << 0, l >>, x), << 1, l - 1 >>, 1) :
                         x \in 1..MaxWeight}

HistReadLengths == {<< 1 >>, << 2, 1 >>}

\* a GcRes over the read lengths rl, as process() returns it
HistResults(rl, bisulfite) ==
    {res \in [SeqToSet(rl) -> [counts : UNION {HistMaps(l) : l \in SeqToSet(rl)},
                               has_bs : {bisulfite},
                               bisulfite_counts :
                                   UNION {HistMaps(l) : l \in SeqToSet(rl)}]] :
        \A l \in SeqToSet(rl) :
            /\ res[l].counts \in HistMaps(l)
            /\ res[l].bisulfite_counts
                   \in (IF bisulfite THEN HistMaps(l) ELSE {EmptyMap})}

HistInit ==
    /\ RdrIdle
    /\ cfg = IdleCfg
    /\ ps = IdlePs
    /\ chan = << >>
    /\ snd_alive = FALSE
    /\ workers = << >>
    /\ main = IdleMain
    /\ kmcv = IdleKmcv
    /\ kmers = IdleKmers
    /\ \E rl \in HistReadLengths : \E bisulfite \in BOOLEAN :
       \E res \in HistResults(rl, bisulfite) :
          betabin = [pc |-> "columns", read_len |-> rl, res |-> res,
                     bisulfite |-> bisulfite, hist |-> << >>, t |-> << >>,
                     header |-> << >>, rows |-> << >>]

histFrame == << stream, cap, max_read_length, catalogue, rdr, out, cfg, ps, chan,
                snd_alive, workers, main, kmcv, kmers >>

\* one turn of the loop over hist.iter_mut().enumerate()
WhColumn ==
    /\ betabin.pc = "columns"
    /\ LET l == Len(betabin.read_len)
           l2 == IF betabin.bisulfite THEN l * 2 ELSE l
           ix == Len(betabin.hist)
           hash == ColumnHash(betabin.res, betabin.read_len, ix)
       IN  betabin' = [betabin EXCEPT
                          !.hist = Append(@, Column(hash)),
                          !.t = Append(@, Normalizer(hash)),
                          !.pc = IF ix + 1 = l2 THEN "header" ELSE "columns"]
    /\ UNCHANGED histFrame

\* the header line, any of whose writes can fail
WhHeader ==
    /\ betabin.pc = "header"
    /\ LET line == HistHeader(betabin.read_len, betabin.bisulfite) IN
       \/ betabin' = [betabin EXCEPT !.header = line, !.pc = "rows"]
       \/ \E n \in 0..Len(line) :
             betabin' = [betabin EXCEPT !.header = SubSeq(line, 1, n), !.pc = "err"]
    /\ UNCHANGED histFrame

\* the line of the next bin, any of whose writes can fail
WhRow ==
    /\ betabin.pc = "rows"
    /\ LET i == Len(betabin.rows) + 1
           line == << Num(2 * (i - 1) + 1, 2 * BINS) >>
                       \o HistRow(betabin.hist, betabin.t, Len(betabin.read_len),
                                  betabin.bisulfite, i)
       IN  \/ betabin' = [betabin EXCEPT !.rows = Append(@, line),
                                         !.pc = IF i = BINS THEN "ok" ELSE "rows"]
           \/ \E n \in 0..Len(line) :
                 betabin' = [betabin EXCEPT !.rows = Append(@, SubSeq(line, 1, n)),
                                           !.pc = "err"]
    /\ UNCHANGED histFrame

HistNext ==
    \/ WhColumn
    \/ WhHeader
    \/ WhRow

SpecHist == HistInit /\ [][HistNext]_vars

(***************************************************************************)
(* C24.  The column of an empty histogram                                  *)
(***************************************************************************)
\* the place in a line of the value of column ix (ix counted from 0 as in
\* hist): after the bin centre, primary and bisulfite values alternating
PlaceOf(ix) ==
    LET l == Len(betabin.read_len)
    IN  IF betabin.bisulfite THEN 2 + 2 * (ix % l) + (ix \div l) ELSE 2 + ix

EmptyColumns ==
    {ix \in 0..(Len(betabin.hist) - 1) :
        ColumnHash(betabin.res, betabin.read_len, ix) = EmptyMap}

\* the sum of the values of column ix in the first n lines
RECURSIVE ColumnSum(_, _)
ColumnSum(ix, n) ==
    IF n = 0 THEN Num(0, 1)
    ELSE f64_add(ColumnSum(ix, n - 1), betabin.rows[n][PlaceOf(ix)])

\* C24: write_hist never divides by a zero normalizer: for a read length
\* whose histogram (primary or bisulfite) is empty, every value written in
\* its column is 0 and not the result of 0/0.
C24_EmptyHistogramZeros ==
    \A r \in 1..Len(betabin.rows) : \A ix \in EmptyColumns :
        PlaceOf(ix) <= Len(betabin.rows[r]) =>
            betabin.rows[r][PlaceOf(ix)] = Num(0, 1)

\* what is written instead: NaN in the columns of empty histograms, and in
\* the others values that add up to BINS over the bins
C24_EmptyHistogramNaN ==
    /\ \A r \in 1..Len(betabin.rows) : \A ix \in 0..(Len(betabin.hist) - 1) :
          PlaceOf(ix) <= Len(betabin.rows[r]) =>
              (betabin.rows[r][PlaceOf(ix)] = NaN <=> ix \in EmptyColumns)
    /\ betabin.pc = "ok" =>
          \A ix \in 0..(Len(betabin.hist) - 1) \ EmptyColumns :
              ColumnSum(ix, BINS) = Num(BINS, 1)

\* the file is complete; read length 2 has no point and read length 1
\* has some
C24_NaNWitness ==
    /\ betabin.pc = "ok"
    /\ betabin.read_len = << 2, 1 >>
    /\ ~betabin.bisulfite
    /\ betabin.rows[1][2] = NaN
    /\ betabin.rows[1][3] # NaN

(***************************************************************************)
(* KmerBuilder: kmers.rs.  The builder is made for a k-mer length k, the   *)
(* KMER_LENGTH of the build; KmerType values are kept below 4^k by the     *)
(* masks, so the u32 shifts lose nothing else.  A region tag is 0 for None.*)
(***************************************************************************)
MaxKmerLength == 3

BuilderTags == 0..2

\* decode_base: (b & 3, ((b & 4) >> 2) ^ 1)
decode_base(b) == [x |-> b % 4, valid |-> 1 - ((b \div 4) % 2)]

\* a complement that leaves the base as it is
rev_base_Same(x) == x

\* (x + 2) & 3
rev_base(x) == (x + 2) % 4

\* KmerBuilder::new
KmerBuilderNew(k) ==
    [k |-> k, target_vec |-> [i \in 1..k |-> 0], kmer |-> 0, rev_kmer |-> 0,
     valid |-> 0, mask |-> Pow(4, k) - 1, valid_mask |-> Pow(2, k) - 1]

\* KmerBuilder::clear
builder_clear(b) ==
    [b EXCEPT !.target_vec = [i \in 1..b.k |-> 0], !.valid = 0, !.kmer = 0,
              !.rev_kmer = 0]

\* KmerBuilder::add_base
builder_add_base(b, base, region_idx) ==
    LET d == decode_base(base) IN
    [b EXCEPT !.target_vec = Append(Tail(@), region_idx),
              !.kmer = ((@ * 4) % (b.mask + 1)) + d.x,
              !.rev_kmer = (@ \div 4) + rev_base(d.x) * Pow(4, b.k - 1),
              !.valid = ((@ * 2) % (b.valid_mask + 1)) + d.valid]

\* a query that looks at the oldest tag only
target_idx_Oldest(b) == b.target_vec[1]

\* KmerBuilder::target_idx
target_idx(b) ==
    LET first == b.target_vec[1] IN
    IF first # 0
    THEN IF \A i \in 2..Len(b.target_vec) : b.target_vec[i] = first THEN first ELSE 0
    ELSE 0

\* KmerBuilder::get_region_idx
get_region_idx(b) ==
    IF b.target_vec[1] = 0 THEN 0
    ELSE IF \A j \in 2..Len(b.target_vec) : b.target_vec[1] = b.target_vec[j]
    THEN b.target_vec[1]
    ELSE 0

NoKmers == [some |-> FALSE]

\* KmerBuilder::kmers
builder_kmers(b) ==
    IF b.valid = b.valid_mask
    THEN [some |-> TRUE, fwd |-> b.kmer, rev |-> b.rev_kmer]
    ELSE NoKmers

\* the last k entries of s
LastK(s, k) == IF Len(s) <= k THEN s ELSE SubSeq(s, Len(s) - k + 1, Len(s))

BuildInit ==
    /\ RdrIdle
    /\ cfg = IdleCfg
    /\ ps = IdlePs
    /\ chan = << >>
    /\ snd_alive = FALSE
    /\ workers = << >>
    /\ main = IdleMain
    /\ kmcv = IdleKmcv
    /\ betabin = IdleBetabin
    /\ \E k \in 1..MaxKmerLength :
          kmers = [pc |-> "build", kmer_build |-> KmerBuilderNew(k), recent |-> << >>]

\* seq_work.k_build.clear() at a new contig
BuildClear ==
    /\ kmers.pc = "build"
    /\ kmers' = [kmers EXCEPT !.kmer_build = builder_clear(@), !.recent = << >>]
    /\ UNCHANGED workFrame

\* s.k_build.add_base(gc, target_idx); recent keeps the last k bases and
\* tags added since the clear
BuildAddBase ==
    /\ kmers.pc = "build"
    /\ \E base \in Base : \E tag \in BuilderTags :
          kmers' = [kmers EXCEPT
                       !.kmer_build = builder_add_base(@, base, tag),
                       !.recent = LastK(Append(@, [base |-> base, tag |-> tag]),
                                        kmers.kmer_build.k)]
    /\ UNCHANGED workFrame

BuildNext ==
    \/ BuildClear
    \/ BuildAddBase

SpecBuild == BuildInit /\ [][BuildNext]_vars

(***************************************************************************)
(* C25, C26.  The queries of the KmerBuilder                               *)
(***************************************************************************)
\* k bases were added since the clear and their tags are one region idx
Homogeneous(r, k) ==
    /\ Len(r) = k
    /\ r[1].tag # 0
    /\ \A i \in 1..Len(r) : r[i].tag = r[1].tag

\* C25: after new or clear and any add_base calls, target_idx (and
\* likewise get_region_idx) returns Some(idx) if and only if the region
\* tags of the last k added bases are all Some(idx) for one idx, and None
\* otherwise, also when fewer than k bases were added since the clear; the
\* two queries always agree.
C25_HomogeneousRegion ==
    LET b == kmers.kmer_build
        r == kmers.recent
    IN  /\ target_idx(b) = IF Homogeneous(r, b.k) THEN r[1].tag ELSE 0
        /\ get_region_idx(b) = target_idx(b)

\* the last three bases added all carry region 2
C25_Witness ==
    /\ kmers.kmer_build.k = 3
    /\ kmers.kmer_build.target_vec = << 2, 2, 2 >>
    /\ target_idx(kmers.kmer_build) = 2

\* the tags of the last three bases start with region 1 and end off target
C25_MixedWitness ==
    /\ kmers.kmer_build.k = 3
    /\ kmers.kmer_build.target_vec = << 1, 1, 0 >>
    /\ target_idx(kmers.kmer_build) = 0

\* the 2-bit codes of the bases of r, oldest first
Codes(r) == [i \in 1..Len(r) |-> r[i].base]

\* A <-> T, C <-> G
Complement(x) ==
    CASE x = BaseA -> BaseT
      [] x = BaseT -> BaseA
      [] x = BaseC -> BaseG
      [] x = BaseG -> BaseC

ReverseComplement(c) == [i \in 1..Len(c) |-> Complement(c[Len(c) + 1 - i])]

\* the codes packed at 2 bits each, the first one in the most significant
\* position
RECURSIVE Pack(_)
Pack(c) == IF c = << >> THEN 0 ELSE Pack(SubSeq(c, 1, Len(c) - 1)) * 4 + c[Len(c)]

\* the k codes a packed value holds
Unpack(n, k) == [i \in 1..k |-> (n \div Pow(4, k - i)) % 4]

\* C26: kmers() returns a pair if and only if at least k bases were added
\* since the last clear and the last k of them are all non-gap; the pair is
\* (fwd, rev) with fwd the k bases packed at 2 bits each (A=0, C=1, T=2,
\* G=3, oldest base most significant, nothing above bit 2k) and rev the
\* packing of their reverse complement, whose reverse complement is fwd.
C26_KmerPair ==
    LET b == kmers.kmer_build
        r == kmers.recent
        full == Len(r) = b.k /\ \A i \in 1..Len(r) : ~is_gap(r[i].base)
    IN  /\ builder_kmers(b).some <=> full
        /\ full =>
              /\ builder_kmers(b).fwd = Pack(Codes(r))
              /\ builder_kmers(b).fwd < Pow(4, b.k)
              /\ builder_kmers(b).rev = Pack(ReverseComplement(Codes(r)))
              /\ Pack(ReverseComplement(Unpack(builder_kmers(b).rev, b.k)))
                     = builder_kmers(b).fwd

\* the last three bases are A, C, G: fwd is ACG and rev is CGT
C26_Witness ==
    /\ kmers.kmer_build.k = 3
    /\ Codes(kmers.recent) = << BaseA, BaseC, BaseG >>
    /\ builder_kmers(kmers.kmer_build)
           = [some |-> TRUE, fwd |-> 0 * 16 + 1 * 4 + 3, rev |-> 1 * 16 + 3 * 4 + 2]

\* a gap base is among the last three: no pair
C26_GapWitness ==
    /\ kmers.kmer_build.k = 3
    /\ Codes(kmers.recent) = << BaseA, BaseOther, BaseG >>
    /\ builder_kmers(kmers.kmer_build) = NoKmers

(***************************************************************************)
(* C27.  The contig ids of the target blocks                               *)
(***************************************************************************)
IsTargetBlock(b) == b.kind = "target"

IsContigBlock(b) == b.kind = "contig"

TargetBlocks == SelectSeq(kmcv.file, IsTargetBlock)

ContigBlocks == SelectSeq(kmcv.file, IsContigBlock)

\* the place, counted from 1, of the contig that holds the j-th region of
\* the catalogue in the order reg.iter() yields the contigs
RECURSIVE OwnerFrom(_, _)
OwnerFrom(j, i) ==
    IF j <= Len(catalogue.hash[i].regions) THEN i
    ELSE OwnerFrom(j - Len(catalogue.hash[i].regions), i + 1)

\* the contig id of a target block
ContigIdOf(b) == u32_from_le_bytes(b.writes[1])

\* the contig block at place i names the contig of the j-th target
NamesContigOf(i, j) ==
    /\ i \in 1..Len(ContigBlocks)
    /\ ContigBlocks[i].writes[2] = as_bytes(catalogue.hash[OwnerFrom(j, 1)].name)

\* C27: the contig_id of each target block identifies the contig block
\* that names the target's contig, with ids counted from 1: the i-th contig
\* block written has contig id i, and id 0 is never written for a target.
C27_ContigIdFromOne ==
    \A j \in 1..Len(TargetBlocks) :
        /\ ContigIdOf(TargetBlocks[j]) # u32(0)
        /\ \E i \in 1..Len(ContigBlocks) :
              /\ ContigIdOf(TargetBlocks[j]) = u32(i)
              /\ NamesContigOf(i, j)

\* what is written instead: the place of the contig block counted from 0
C27_ContigIdFromZero ==
    \A j \in 1..Len(TargetBlocks) :
        \E i \in 1..Len(ContigBlocks) :
            /\ ContigIdOf(TargetBlocks[j]) = u32(i - 1)
            /\ NamesContigOf(i, j)

\* the three targets of two contigs are written: the target of the first
\* contig has id 0, the targets of the second have id 1
C27_ZeroWitness ==
    /\ catalogue = CatalogueTwo
    /\ Len(TargetBlocks) = 3
    /\ ContigIdOf(TargetBlocks[1]) = u32(0)
    /\ ContigIdOf(TargetBlocks[3]) = u32(1)

(***************************************************************************)
(* The region tag of the reader, reader.rs:183-189: at the head of every   *)
(* iteration of the byte loop the tag is check_pos(self.pos) on the slice  *)
(* the RegionState holds.                                                  *)
(***************************************************************************)
\* the states whose handler is given the tag
TagStates == {"InSeq", "InSeqAfterNewLine", "InGapAfterNewLine",
              "InLongGapAfterNewLine", "StartGap", "InGap", "InLongGap"}

\* the reader is about to process a byte of the current contig with a tag
Tagging == rdr.pc = "scan" /\ catalogue.present /\ rdr.state \in TagStates

\* the tag the loop computes for this byte
TagNow == check_pos(rdr.ts, rdr.pos).idx

\* the regions of the current contig
ContigRegions == RegionsGet(catalogue, rdr.seq_id)

\* the idx of a region of the current contig with start <= pos < start+size
HalfOpenTag(pos) ==
    LET rs == ContigRegions
        hit == {j \in 1..Len(rs) : rs[j].start <= pos /\ pos < RegionEnd(rs[j])}
    IN  IF hit = {} THEN 0 ELSE rs[CHOOSE j \in hit : TRUE].idx

\* C28: with a catalogue, the tag computed for position pos is Some(idx)
\* if and only if a region of the current contig has start <= pos <
\* start+size, idx being its idx; position start+size is off target.
C28_TagHalfOpen == Tagging => TagNow = HalfOpenTag(rdr.pos)

\* what holds instead: the tag differs from the half-open one only at the
\* position start+size of a region, where it is that region's idx
C28_TagDiffersAtEnd ==
    (Tagging /\ TagNow # HalfOpenTag(rdr.pos)) =>
        /\ HalfOpenTag(rdr.pos) = 0
        /\ \E j \in 1..Len(ContigRegions) :
              /\ rdr.pos = RegionEnd(ContigRegions[j])
              /\ TagNow = ContigRegions[j].idx

\* the byte at position 3 of contig A, one past region [1, 3), is tagged 1
C28_EndWitness ==
    /\ Tagging
    /\ rdr.pos = 3
    /\ TagNow = 1
    /\ stream[rdr.bpos + rdr.ix + 1] = "A"

(***************************************************************************)
(* The position counter of the reader.  A byte is pushed on SeqWork.v and  *)
(* handed to the k-mer builder by the same lines (reader.rs:312-313), in   *)
(* the iteration that processes it.                                        *)
(***************************************************************************)
\* the stream index of the byte the loop is processing
ByteAt == rdr.bpos + rdr.ix + 1

\* this step of the byte loop pushes the byte's base
PushesBase ==
    /\ rdr.pc = "scan"
    /\ rdr'.pc \in {"scan", "consume"}
    /\ Len(rdr'.v) = Len(rdr.v) + 1

\* C29: whenever the reader appends a base to the Seq and feeds it to the
\* k-mer builder, pos is the 0-based offset of that base in its contig:
\* the number of sequence characters between the id line and the base.
C29_PosIsContigOffset == [][PushesBase => rdr.pos = ContigOffset(ByteAt)]_vars

\* the stream holds one contig: no '>' after its id line
OneContig == \A i \in (Len(Header) + 1)..Len(stream) : stream[i] # ">"

\* what holds instead for a stream of one contig: pos is the offset of the
\* base or, after a base lost at the end of a chunk, one less
C29_PosAtMostOneBehind ==
    [][(OneContig /\ PushesBase) =>
          rdr.pos \in {ContigOffset(ByteAt), ContigOffset(ByteAt) - 1}]_vars

\* the second base of contig A has been pushed as the first base of the
\* Seq, with pos 0: the first base was consumed with the chunk it ended
C29_BehindWitness ==
    /\ stream = Header \o << "A", "A" >>
    /\ cap = 2
    /\ rdr.pc \in {"scan", "consume"}
    /\ rdr.vsrc = << 5 >>
    /\ rdr.pos = 1

(***************************************************************************)
(* The counts of process_seq against the window they stand for: after the  *)
(* p-th base step the window of read length L is the last L bases taken,   *)
(* Seq bases and padding alike (Window, BaseAtPos).                        *)
(***************************************************************************)
CountedBases == {BaseA, BaseC, BaseT, BaseG}

\* C30: after each base step of process_seq, for every configured read
\* length L and base x of A, C, G, T, counts[L][x] is the number of
\* occurrences of x among the last L bases pushed since the Seq started;
\* the assertion of remove_base never fails.
C30_CountsAreWindowCounts ==
    /\ ps.pc # "panic"
    /\ ps.pc \in {"loop", "done"} =>
          \A ix \in 1..Len(cfg.read_lengths) : \A x \in CountedBases :
              ps.w.work.counts[ix].counts[x + 1]
                  = WinCount(ps.i, cfg.read_lengths[ix], x)

\* read lengths 2 and 1, Seq A C A, three base steps taken: the first A
\* has left both windows and has been removed from both counts
C30_Witness ==
    /\ ps.pc = "loop"
    /\ cfg.read_lengths = << 2, 1 >>
    /\ ps.s = << BaseA, BaseC, BaseA >>
    /\ ps.i = 3
    /\ ps.w.work.counts[1].counts[BaseA + 1] = 1
    /\ ps.w.work.counts[1].counts[BaseC + 1] = 1
    /\ ps.w.work.counts[2].counts[BaseA + 1] = 1
    /\ ps.w.work.counts[2].counts[BaseC + 1] = 0

(***************************************************************************)
(* What process_seq leaves in the Work of its thread, and what a Work left *)
(* by an earlier call does to the points of the next.                      *)
(***************************************************************************)
\* a Work as no call leaves it: the window full of A, every count at one
DirtyWork ==
    [buf |-> [i \in 1..Len(ps.w.work.buf) |-> BaseA],
     counts |-> [ix \in 1..Len(ps.w.work.counts) |->
                    [ps.w.work.counts[ix] EXCEPT !.counts = << 1, 1, 1, 1 >>]]]

\* the GcRes of process_seq run on ps.s from a fresh GcRes and Work work
PointsFrom(work) ==
    process_seq(cfg, ps.s,
                [work |-> work,
                 res |-> GcResNew(cfg.read_lengths, cfg.bisulfite),
                 panic |-> FALSE]).res

\* C31: when process_seq returns, every count of every read length is zero
\* and the window holds only gap bases; the points added for a Seq are the
\* same whatever Work the call starts with.
C31_WorkDrained ==
    ps.pc = "done" =>
        /\ \A ix \in 1..Len(ps.w.work.counts) :
              ps.w.work.counts[ix].counts = << 0, 0, 0, 0 >>
        /\ \A i \in 1..Len(ps.w.work.buf) : is_gap(ps.w.work.buf[i])
        /\ PointsFrom(ps.w.work) = ps.w.res
        /\ PointsFrom(DirtyWork) = ps.w.res

\* a Seq of three non-gap bases has been processed for read lengths 2 and
\* 1 and has added points
C31_Witness ==
    /\ ps.pc = "done"
    /\ cfg.read_lengths = << 2, 1 >>
    /\ ps.s = << BaseA, BaseC, BaseA >>
    /\ \E L \in DOMAIN ps.w.res : DOMAIN ps.w.res[L].counts # {}

(***************************************************************************)
(* Contig boundaries in the reader.  The first byte after an id line is    *)
(* handled in state NewContig by proc_start_seq (reader.rs:201-209), every *)
(* later first byte of a line by a proc_*_after_new_line handler.          *)
(***************************************************************************)
\* the stream bytes the bases of the Seqs came from: the Seqs returned and
\* the one in progress
SeqSources ==
    {out[i].vsrc : i \in 1..Len(out)}
        \cup (IF rdr.pc \in {"idle", "done"} THEN {} ELSE {rdr.vsrc})

\* every base of every Seq was read from a sequence character, and all
\* the bases of a Seq from the same contig
SeqsWithinContig ==
    \A src \in SeqSources : \A k \in 1..Len(src) :
        /\ IsSeqChar(src[k])
        /\ ContigStart(src[k]) = ContigStart(src[1])

\* slice is what is left of the regions rs after some calls of advance
IsRest(slice, rs) ==
    slice = << >> \/ \E n \in 0..Len(rs) : slice = SubSeq(rs, n + 1, Len(rs))

\* the id and the region slice are those of the contig of the byte handled
ContigLoaded ==
    /\ rdr.seq_id = ContigName(ByteAt)
    /\ catalogue.present =>
          IsRest(rdr.ts, RegionsGet(catalogue, ContigName(ByteAt)))

\* C32: every '>' that is the first byte of a line starts a new contig:
\* no Seq holds bases of two contigs or bytes of an id line, and when a
\* base is handled the id (trimmed at its first whitespace) and the region
\* slice are those of its contig, with position 0 for the first base; also
\* after a record with no sequence lines.
C32_HeaderStartsContig ==
    /\ [](SeqsWithinContig)
    /\ [][PushesBase => /\ ContigLoaded
                        /\ ContigOffset(ByteAt) = 0 => rdr.pos = 0]_vars

\* a '>' right after the newline of an id line: a record without sequence
EmptyRecord ==
    \E i \in 2..Len(stream) :
        /\ stream[i] = ">"
        /\ IsHeaderStart(i)
        /\ \E h \in 1..(i - 1) :
              /\ IsHeaderStart(h)
              /\ \A j \in h..(i - 2) : stream[j] # "\n"
              /\ stream[i - 1] = "\n"

\* what holds instead: the same, for streams without such a record
C32_UnlessEmptyRecord ==
    /\ [](~EmptyRecord => SeqsWithinContig)
    /\ [][(~EmptyRecord /\ PushesBase) =>
             /\ ContigLoaded
             /\ ContigOffset(ByteAt) = 0 => rdr.pos = 0]_vars

\* the name of a second id line, right behind the first, is returned as
\* the base of a Seq
C32_IdLineWitness ==
    /\ stream = Header \o << ">", "A", "\n" >>
    /\ Len(out) = 1
    /\ out[1].vsrc = << 5 >>

(***************************************************************************)
(* The bases of the input against the bases of the Seqs returned.          *)
(***************************************************************************)
\* the places (Seq n, index k) whose base was read from stream byte i
PlacesOf(i) ==
    {p \in {<< n, k >> : n \in 1..Len(out), k \in 1..MaxBody} :
        /\ p[2] <= Len(out[p[1]].vsrc)
        /\ out[p[1]].vsrc[p[2]] = i}

\* the stream bytes of all Seqs, one Seq after the other
RECURSIVE SourcesFrom(_)
SourcesFrom(n) ==
    IF n > Len(out) THEN << >> ELSE out[n].vsrc \o SourcesFrom(n + 1)

Increasing(q) == \A k \in 1..(Len(q) - 1) : q[k] < q[k + 1]

\* a..b is a whole run of gap characters of one contig around byte i
GapRunAround(i, a, b) ==
    /\ a <= i /\ i <= b
    /\ \A j \in a..b : IsGapChar(j) \/ stream[j] = "\n"
    /\ IsGapChar(a) /\ IsGapChar(b)
    /\ ContigStart(a) = ContigStart(b)

\* no sequence character of the contig of a before a, or behind b
RunIsLeading(a) ==
    \A j \in 1..(a - 1) : ~(IsSeqChar(j) /\ ContigStart(j) = ContigStart(a))

RunIsTrailing(b) ==
    \A j \in (b + 1)..Len(stream) : ~(IsSeqChar(j) /\ ContigStart(j) = ContigStart(b))

RunIsLong(a, b) == Cardinality({j \in a..b : IsGapChar(j)}) >= max_read_length

\* byte i is a gap base of a leading, trailing or long gap run
Droppable(i) ==
    \E a \in 1..i : \E b \in i..Len(stream) :
        /\ GapRunAround(i, a, b)
        /\ RunIsLeading(a) \/ RunIsTrailing(b) \/ RunIsLong(a, b)

\* every non-gap base is in exactly one Seq, as itself or as N
NonGapBasesKept ==
    \A i \in 1..Len(stream) :
        IsNonGapChar(i) =>
            /\ Cardinality(PlacesOf(i)) = 1
            /\ \A p \in PlacesOf(i) :
                  out[p[1]].v[p[2]] \in {from_u8(stream[i]), BaseN}

\* a sequence character that is in no Seq is a droppable gap base
OnlyGapsDropped ==
    \A i \in 1..Len(stream) :
        (IsSeqChar(i) /\ PlacesOf(i) = {}) => Droppable(i)

\* C33: every non-gap base of the input is in exactly one Seq returned,
\* as itself or as N, in input order; the only bases in no Seq are gap
\* bases of leading, trailing and long gap runs; with or without a
\* newline at the end of the input.
C33_BasesKept ==
    rdr.pc = "done" =>
        /\ NonGapBasesKept
        /\ Increasing(SourcesFrom(1))
        /\ OnlyGapsDropped

\* what holds instead: no byte is in two places and the order is kept
C33_NoBaseTwice ==
    rdr.pc = "done" =>
        /\ \A i \in 1..Len(stream) : Cardinality(PlacesOf(i)) <= 1
        /\ Increasing(SourcesFrom(1))

\* the reader has ended on the stream ">A\nA", which has no newline at its
\* end, without returning a Seq: the base A is in none
C33_LostBaseWitness ==
    /\ stream = Header \o << "A" >>
    /\ rdr.pc = "done"
    /\ out = << >>

(***************************************************************************)
(* The reader with its KmerBuilder: reader.rs, get_seq and proc_in_gen.    *)
(* The builder is cleared in state NewContig (reader.rs:206) and is given  *)
(* every base pushed on SeqWork.v, with the tag of the iteration           *)
(* (reader.rs:312-313); when kmers() then returns a pair, both k-mers go   *)
(* to add_kmer with target_idx() (reader.rs:320-324).  fed records the     *)
(* stream index of the last k bases given to the builder since its clear,  *)
(* calls the add_kmer calls of the last iteration.                         *)
(***************************************************************************)
\* largest k-mer length the reader is run with
MaxFeedK == 2

FeedBytes == {">", "\n", "A", "C", "N"}

FeedStreams == {Header \o b : b \in SeqsUpTo(FeedBytes, MaxBody)}

FeedInit ==
    /\ stream \in FeedStreams
    /\ cap \in 1..MaxCap
    /\ max_read_length \in 1..MaxRL
    /\ catalogue \in Catalogues
    /\ rdr = RdrNew
    /\ out = << >>
    /\ kmcv = IdleKmcv
    /\ betabin = IdleBetabin
    /\ cfg = IdleCfg
    /\ ps = IdlePs
    /\ chan = << >>
    /\ snd_alive = FALSE
    /\ workers = << >>
    /\ main = IdleMain
    /\ \E k \in 1..MaxFeedK :
          kmers = [pc |-> "feed", kmer_build |-> KmerBuilderNew(k),
                   fed |-> << >>, calls |-> << >>]

\* s.k_build.add_base(gc, target_idx) and the add_kmer calls behind it
FeedBase(km, gc, idx, at) ==
    LET b == builder_add_base(km.kmer_build, gc, idx)
        pair == builder_kmers(b)
    IN  [km EXCEPT !.kmer_build = b,
                   !.fed = LastK(Append(@, at), b.k),
                   !.calls = IF pair.some
                             THEN << [kmer |-> pair.fwd, tag |-> target_idx(b)],
                                     [kmer |-> pair.rev, tag |-> target_idx(b)] >>
                             ELSE << >>]

\* what one iteration of the byte loop does to the builder: r is the Rdr
\* before the iteration and q the Rdr after it
FeedStep(km, r, q) ==
    LET at == r.bpos + r.ix + 1
        idx == IF catalogue.present THEN check_pos(r.ts, r.pos).idx ELSE 0
    IN  IF q.pc \in {"err", "panic"} THEN [km EXCEPT !.calls = << >>]
        ELSE IF r.state = "NewContig"
        THEN [km EXCEPT !.kmer_build = builder_clear(@), !.fed = << >>,
                        !.calls = << >>]
        ELSE IF Len(q.v) = Len(r.v) + 1
        THEN FeedBase(km, from_u8(stream[at]), idx, at)
        ELSE [km EXCEPT !.calls = << >>]

\* one iteration of the byte loop, the builder included
FeedByte ==
    /\ rdr.pc = "scan"
    /\ rdr' = ByteStep(rdr)
    /\ kmers' = FeedStep(kmers, rdr, ByteStep(rdr))
    /\ UNCHANGED << stream, cap, max_read_length, catalogue, kmcv, betabin,
                    out, procVars >>

FeedNext == FillBuf \/ FeedByte \/ Consume \/ Return \/ ReaderLoop

SpecFeed == FeedInit /\ [][FeedNext]_vars

(***************************************************************************)
(* C34.  The k-mers the reader passes to add_kmer                          *)
(***************************************************************************)
\* the last iteration passed a k-mer pair to add_kmer
PairAdded == kmers.pc = "feed" /\ kmers.calls # << >>

FedBases == [j \in 1..Len(kmers.fed) |-> from_u8(stream[kmers.fed[j]])]

\* the bytes fed are k non-gap sequence characters at consecutive
\* positions of one contig
FedConsecutive ==
    /\ Len(kmers.fed) = kmers.kmer_build.k
    /\ \A j \in 1..Len(kmers.fed) : IsNonGapChar(kmers.fed[j])
    /\ \A j \in 1..(Len(kmers.fed) - 1) :
          /\ ContigStart(kmers.fed[j]) = ContigStart(kmers.fed[j + 1])
          /\ ContigOffset(kmers.fed[j + 1]) = ContigOffset(kmers.fed[j]) + 1

\* the forward k-mer and the reverse complement of these bytes, in this
\* order, with one tag
PairOfFed ==
    /\ Len(kmers.calls) = 2
    /\ kmers.calls[1].kmer = Pack(FedBases)
    /\ kmers.calls[2].kmer = Pack(ReverseComplement(FedBases))
    /\ kmers.calls[1].tag = kmers.calls[2].tag

\* byte i lies in the region idx of its contig, [start, start+size)
InRegionIdx(i, idx) ==
    LET rs == RegionsGet(catalogue, ContigName(i))
    IN  \E n \in 1..Len(rs) : /\ rs[n].idx = idx
                              /\ rs[n].start <= ContigOffset(i)
                              /\ ContigOffset(i) < RegionEnd(rs[n])

\* a tag Some(idx) only when all the bytes fed lie in region idx
TagWithinRegion ==
    kmers.calls[1].tag # 0 =>
        \A j \in 1..Len(kmers.fed) : InRegionIdx(kmers.fed[j], kmers.calls[1].tag)

\* C34: every k-mer pair the reader passes to add_kmer is the packing of k
\* non-gap bases at k consecutive positions of one contig, never across a
\* gap base, a discarded long gap or a contig boundary; the forward and
\* the reverse-complement k-mer are added with the same tag, which is
\* Some(idx) only when all k positions lie in region idx.
C34_KmersOfOneStretch ==
    PairAdded => (FedConsecutive /\ PairOfFed /\ TagWithinRegion)

\* what holds instead: the pair is the forward and reverse-complement
\* packing of the last k bytes fed, with one tag, and unless the stream has
\* a record without sequence these are consecutive non-gap bases of one
\* contig
C34_PairsWellFormed ==
    PairAdded => /\ PairOfFed
                 /\ ~EmptyRecord => FedConsecutive

\* the 2-mer at positions 2 and 3 of contig A is added with tag 1, though
\* region 1 is [1, 3)
C34_EndTagWitness ==
    /\ PairAdded
    /\ stream = Header \o << "A", "C", "A", "C" >>
    /\ kmers.kmer_build.k = 2
    /\ kmers.fed = << 6, 7 >>
    /\ kmers.calls[1] = [kmer |-> 0 * 4 + 1, tag |-> 1]
    /\ kmers.calls[2] = [kmer |-> 3 * 4 + 2, tag |-> 1]

(***************************************************************************)
(* C35.  The type code and the hit words of a k-mer record                 *)
(***************************************************************************)
\* bits 0-3 of the first byte of a record
TypeNibble(b) == b.writes[1][1] % 16

\* the u32 hit words written behind the type and skip bytes
HitWords(b) == Len(b.writes) - 1

\* C35: the low nibble of the type byte determines how many u32 hit words
\* follow the skip field: k-mer classes followed by different numbers of
\* hit words never share a type code.
C35_TypeCodeFixesHitWords ==
    \A i \in 1..Len(KmerRecords) : \A j \in 1..Len(KmerRecords) :
        TypeNibble(KmerRecords[i]) = TypeNibble(KmerRecords[j])
            => HitWords(KmerRecords[i]) = HitWords(KmerRecords[j])

\* what holds instead: only type code 1 stands for two numbers of words
C35_ExceptTypeOne ==
    \A i \in 1..Len(KmerRecords) : \A j \in 1..Len(KmerRecords) :
        (/\ TypeNibble(KmerRecords[i]) = TypeNibble(KmerRecords[j])
         /\ TypeNibble(KmerRecords[i]) # 1)
            => HitWords(KmerRecords[i]) = HitWords(KmerRecords[j])

\* a unique on-target k-mer and a k-mer with two hits are both written
\* with type code 1, the first with one hit word and the second with two
C35_SharedCodeWitness ==
    /\ Len(KmerRecords) = 2
    /\ TypeNibble(KmerRecords[1]) = 1
    /\ TypeNibble(KmerRecords[2]) = 1
    /\ HitWords(KmerRecords[1]) = 1
    /\ HitWords(KmerRecords[2]) = 2

(***************************************************************************)
(* normalize() followed by output_kmers(): the catalogue read_bed has      *)
(* filled is normalized and then written, the HashMap unchanged in         *)
(* between.  catalogue.hash lists the contigs in the order the HashMap     *)
(* yields them, to values_mut() in normalize (regions.rs:114-120) as to    *)
(* iter() in the writers (regions.rs:122-124); it need not be the order    *)
(* of the BED lines.                                                       *)
(***************************************************************************)
\* most BED lines of a catalogue that is normalized and written
MaxTargetLines == 2

\* the catalogue after the lines recs, the n-th line giving idx n
RECURSIVE AddLines(_, _, _)
AddLines(cat, recs, n) ==
    IF n > Len(recs) THEN cat
    ELSE AddLines(add_region(cat, recs[n].ctg,
                             Region(recs[n].start, recs[n].end - recs[n].start, n)),
                  recs, n + 1)

GoodBedRecords == {rec \in BedRecords : rec.start < rec.end}

\* the orders a HashMap can yield the contigs of cat in
IterOrders(cat) ==
    {[cat EXCEPT !.hash = [i \in DOMAIN cat.hash |-> cat.hash[pi[i]]]] :
        pi \in Permutations(DOMAIN cat.hash)}

RawCatalogues ==
    UNION {IterOrders(AddLines([present |-> TRUE, hash |-> << >>], recs, 1)) :
              recs \in SeqsUpTo(GoodBedRecords, MaxTargetLines)}

\* Regions::normalize from the i-th contig of values_mut() on: the
\* catalogues it can leave
RECURSIVE NormalizeFrom(_, _, _)
NormalizeFrom(cat, i, ix) ==
    IF i > Len(cat.hash) THEN {cat}
    ELSE UNION {LET m == sort_and_merge(cat.hash[i].regions, pi, ix)
                IN  NormalizeFrom([cat EXCEPT !.hash[i].regions = m.regions],
                                  i + 1, m.ix) :
                   pi \in SortedOrders(cat.hash[i].regions)}

\* a table with one k-mer that hits target 1 and off target
TargetTables == {TableOf({}, << >>), TableOf({1}, << Slots(<< u32(2), u32(1) >>) >>)}

TargetsInit ==
    /\ stream = << >>
    /\ cap = 1
    /\ max_read_length = 1
    /\ rdr = [pc |-> "idle"]
    /\ out = << >>
    /\ cfg = IdleCfg
    /\ ps = IdlePs
    /\ chan = << >>
    /\ snd_alive = FALSE
    /\ workers = << >>
    /\ main = IdleMain
    /\ kmers = IdleKmers
    /\ betabin = IdleBetabin
    /\ catalogue \in RawCatalogues
    /\ \E t \in TargetTables :
          kmcv = [pc |-> "normalize", k_work |-> KmerWorkOf(t), rnd_id |-> u32(0),
                  file |-> << >>, i |-> 0, prev |-> 0, failed |-> "no"]

\* regs.normalize() at the end of read_bed
TNormalize ==
    /\ kmcv.pc = "normalize"
    /\ catalogue' \in NormalizeFrom(catalogue, 1, 0)
    /\ kmcv' = [kmcv EXCEPT !.pc = "open"]
    /\ UNCHANGED << stream, cap, max_read_length, rdr, out, cfg, ps, chan,
                    snd_alive, workers, main, kmers, betabin >>

TargetsNext == TNormalize \/ KmcvNext

SpecTargets == TargetsInit /\ [][TargetsNext]_vars

(***************************************************************************)
(* C36.  The order of the target blocks and the idx of the regions         *)
(***************************************************************************)
\* the places (contig i, region n) of the regions with idx j
RegionsWithIdx(j) ==
    {x \in {<< i, n >> : i \in 1..Len(catalogue.hash), n \in 1..MaxTargetLines} :
        /\ x[2] <= Len(catalogue.hash[x[1]].regions)
        /\ catalogue.hash[x[1]].regions[x[2]].idx = j}

\* C36: the j-th target block written, counting from 1, describes the
\* region whose idx is j, so a hit word j >= 1 of a k-mer record refers
\* to the j-th target block; the hit words are the slots of the KmerVec
\* minus one, so hit word 0 means off target.
C36_TargetOrderIsIdx ==
    /\ \A j \in 1..Len(TargetBlocks) :
          /\ Cardinality(RegionsWithIdx(j)) = 1
          /\ \A x \in RegionsWithIdx(j) :
                TargetBlocks[j]
                    = target_block(x[1] - 1, catalogue.hash[x[1]].regions[x[2]])
    /\ RecordsFollowTable

\* two lines, "A 0 1" before "B 0 1", the HashMap yielding B first: the
\* first target block is the region of B, which has idx 1
C36_Witness ==
    /\ Len(catalogue.hash) = 2
    /\ catalogue.hash[1] = [name |-> << "B" >>, regions |-> << Region(0, 1, 1) >>]
    /\ catalogue.hash[2] = [name |-> << "A" >>, regions |-> << Region(0, 1, 2) >>]
    /\ Len(TargetBlocks) = 2
    /\ Len(KmerRecords) = 1

(***************************************************************************)
(* C37.  The assertions of get_seq and its gap counter                     *)
(***************************************************************************)
\* the number of bases at the tail of the buffer read from gap characters
RECURSIVE TailGaps(_)
TailGaps(src) ==
    IF src = << >> \/ ~IsGapChar(src[Len(src)]) THEN 0
    ELSE 1 + TailGaps(SubSeq(src, 1, Len(src) - 1))

\* neither assert!(seq_work.v.len() > gap) nor assert!(v.len() >= gap)
\* has failed
AssertsHold == rdr.pc # "panic"

\* the gap counter where it is used: at the final truncation it is the
\* number of gap bases at the tail of the buffer
GapIsTailAtReturn == rdr.pc = "ret" => rdr.gap = TailGaps(rdr.vsrc)

\* in state InGap the counter is one less than the tail, the gap base
\* pushed by the previous iteration being counted by this one
GapIsTailInGap ==
    (rdr.pc = "scan" /\ rdr.state = "InGap") => rdr.gap + 1 = TailGaps(rdr.vsrc)

\* C37: the assertions inside get_seq never fail, for any input and any
\* chunking, and the gap counter equals the number of gap bases at the
\* tail of the buffer.
C37_AssertsAndGapCounter ==
    /\ AssertsHold
    /\ GapIsTailAtReturn
    /\ GapIsTailInGap

\* ">A\nANNN" read in chunks of two bytes with max_read_length 2: the A is
\* lost with its chunk, the buffer holds two gap bases when the gap run
\* reaches max_read_length, and assert!(seq_work.v.len() > gap) fails
C37_PanicWitness ==
    /\ stream = Header \o << "A", "N", "N", "N" >>
    /\ cap = 2
    /\ max_read_length = 2
    /\ rdr.pc = "panic"
    /\ rdr.state = "InGap"
    /\ Len(rdr.v) = 2

\* ">A\nANA" has ended: the counter still holds the gap run of length 1
\* that lies before the last base, and the final truncation cuts that base
C37_StaleGapWitness ==
    /\ stream = Header \o << "A", "N", "A" >>
    /\ max_read_length = 3
    /\ rdr.pc = "ret"
    /\ rdr.gap = 1
    /\ rdr.vsrc = << 4, 5, 6 >>

(***************************************************************************)
(* KmerWork<T> as kmers.rs has it: a HashMap from k-mer to a T that holds  *)
(* the region of the first call shifted left by one, with bit 0 set once   *)
(* the k-mer has been seen again, and the counters kept beside it.  T is   *)
(* an unsigned integer of sz bytes.  A region is 0 for None.               *)
(***************************************************************************)
\* largest size of T in bytes
MaxTSize == 2
\* largest n_targets a KmerWork is made with: one more than a u8 T can tag
MaxTargets == 128
\* most add_kmer calls in a run
MaxCalls == 4

\* KmerWork::new
KmerWorkT_new(sz, n_targets) ==
    [kmers |-> EmptyMap,
     target_unique_count |-> [i \in 1..n_targets |-> 0],
     bits |-> 8 * sz,
     max_region |-> Pow(2, (8 * sz) - 1) - 1,
     on_target_unique |-> 0, off_target_unique |-> 0, non_unique |-> 0]

\* self.kmers.insert(kmer, v)
MapInsert(m, k, v) == [x \in DOMAIN m \cup {k} |-> IF x = k THEN v ELSE m[x]]

\* a mark that leaves the value as it is
MarkNonUnique_Keep(p) == p

\* *p |= one
MarkNonUnique(p) == IF p % 2 = 0 THEN p + 1 ELSE p

\* the branch of add_kmer for a k-mer that is in the map with value p
SeenAgain(w, kmer, p) ==
    IF p % 2 # 0 THEN [ok |-> TRUE, w |-> w]
    ELSE IF p # 0
    THEN LET ix == (p \div 2) - 1 IN
         IF w.on_target_unique = 0
            \/ (ix + 1) \notin DOMAIN w.target_unique_count
            \/ w.target_unique_count[ix + 1] = 0
         THEN [ok |-> FALSE, w |-> w]
         ELSE [ok |-> TRUE,
               w |-> [w EXCEPT !.on_target_unique = @ - 1,
                               !.target_unique_count[ix + 1] = @ - 1,
                               !.non_unique = @ + 1,
                               !.kmers[kmer] = MarkNonUnique(p)]]
    ELSE IF w.off_target_unique = 0 THEN [ok |-> FALSE, w |-> w]
    ELSE [ok |-> TRUE,
          w |-> [w EXCEPT !.off_target_unique = @ - 1,
                          !.non_unique = @ + 1,
                          !.kmers[kmer] = MarkNonUnique(p)]]

\* the branch of add_kmer for a k-mer that is not in the map
FirstSeenT(w, kmer, r) ==
    LET v == (r * 2) % Pow(2, w.bits) IN
    IF r = 0
    THEN [ok |-> TRUE,
          w |-> [w EXCEPT !.kmers = MapInsert(@, kmer, v),
                          !.off_target_unique = @ + 1]]
    ELSE IF r \notin DOMAIN w.target_unique_count THEN [ok |-> FALSE, w |-> w]
    ELSE [ok |-> TRUE,
          w |-> [w EXCEPT !.kmers = MapInsert(@, kmer, v),
                          !.on_target_unique = @ + 1,
                          !.target_unique_count[r] = @ + 1]]

\* KmerWork::add_kmer: ok is FALSE when an assertion or an index fails
KmerWorkT_add_kmer(w, kmer, r) ==
    IF r > w.max_region THEN [ok |-> FALSE, w |-> w]
    ELSE IF kmer \in DOMAIN w.kmers THEN SeenAgain(w, kmer, w.kmers[kmer])
    ELSE FirstSeenT(w, kmer, r)

\* KmerWork::on_target_kmers: for each target the k-mers pushed on its
\* vector, in whatever order drain() yields them
KmerWorkT_on_target_kmers(w) ==
    [i \in DOMAIN w.target_unique_count |->
        {k \in DOMAIN w.kmers :
            /\ w.kmers[k] % 2 = 0
            /\ w.kmers[k] > 0
            /\ (w.kmers[k] \div 2) - 1 = i - 1}]

\* the k-mers and the regions of the calls: off target, the first target
\* and the last target of the KmerWork
KmerIds == {0, 5}

CallRegions(w) == {0, 1, Len(w.target_unique_count)}

\* a KmerWork for a T of 1 or 2 bytes and 2 or MaxTargets targets; calls
\* keeps, for each k-mer, the regions of the calls made for it
KwInit ==
    /\ RdrIdle
    /\ cfg = IdleCfg
    /\ ps = IdlePs
    /\ chan = << >>
    /\ snd_alive = FALSE
    /\ workers = << >>
    /\ main = IdleMain
    /\ kmcv = IdleKmcv
    /\ betabin = IdleBetabin
    /\ \E sz \in 1..MaxTSize : \E n \in {2, MaxTargets} :
          kmers = [pc |-> "kwork", w |-> KmerWorkT_new(sz, n),
                   calls |-> [k \in KmerIds |-> << >>],
                   n |-> 0, vecs |-> << >>]

\* one call of add_kmer
KwAddKmer ==
    /\ kmers.pc = "kwork"
    /\ kmers.n < MaxCalls
    /\ \E kmer \in KmerIds : \E r \in CallRegions(kmers.w) :
          LET a == KmerWorkT_add_kmer(kmers.w, kmer, r) IN
          kmers' = IF a.ok
                   THEN [kmers EXCEPT !.w = a.w, !.n = @ + 1,
                                      !.calls[kmer] = Append(@, r)]
                   ELSE [kmers EXCEPT !.pc = "panic", !.n = @ + 1,
                                      !.vecs = << kmer, r >>]
    /\ UNCHANGED workFrame

\* on_target_kmers(self) takes the KmerWork
KwOnTargetKmers ==
    /\ kmers.pc = "kwork"
    /\ kmers' = [kmers EXCEPT !.pc = "taken",
                              !.vecs = KmerWorkT_on_target_kmers(kmers.w)]
    /\ UNCHANGED workFrame

KwNext == KwAddKmer \/ KwOnTargetKmers

SpecKw == KwInit /\ [][KwNext]_vars

(***************************************************************************)
(* C38.  The counters of KmerWork<T>                                       *)
(***************************************************************************)
InKw == kmers.pc \in {"kwork", "panic", "taken"}

\* the k-mers of the map seen exactly once, with region r
UniqueIn(r) ==
    {k \in DOMAIN kmers.w.kmers : kmers.calls[k] = << r >>}

\* the entries of a vector of counts that add to its sum
Counted(v) == {i \in DOMAIN v : v[i] # 0}

\* the counters and the map agree with the calls made
CountersFollowCalls ==
    LET w == kmers.w IN
    /\ DOMAIN w.kmers = {k \in KmerIds : kmers.calls[k] # << >>}
    /\ w.on_target_unique + w.off_target_unique + w.non_unique
           = Cardinality(DOMAIN w.kmers)
    /\ SumOver(w.target_unique_count, Counted(w.target_unique_count))
           = w.on_target_unique
    /\ \A r \in CallRegions(w) \ {0} :
          w.target_unique_count[r] = Cardinality(UniqueIn(r))
    /\ \A k \in DOMAIN w.kmers :
          w.kmers[k] = IF Len(kmers.calls[k]) = 1
                       THEN 2 * kmers.calls[k][1]
                       ELSE (2 * kmers.calls[k][1]) + 1
    /\ kmers.pc = "taken" =>
          \A r \in CallRegions(w) \ {0} : kmers.vecs[r] = UniqueIn(r)

C38_TooLargeWitness ==
    /\ kmers.pc = "panic"
    /\ kmers.w.max_region = 127
    /\ kmers.vecs[2] = 128

====
